---- MODULE Spec2Model ----
(***************************************************************************)
(* A model of kleinanzeigen-bot's ad reconciliation engine:                *)
(* KleinanzeigenBot.run / load_ads / publish_ads / publish_ad /            *)
(* delete_ads / delete_ad of src/src/kleinanzeigen_bot/__init__.py.        *)
(*                                                                         *)
(* Python values are encoded as follows.  None is the integer None (-1)    *)
(* and a key that the YAML document does not hold is Missing (-2), so that *)
(* integer fields (id, price, republication_interval, active as 0/1) stay  *)
(* comparable.  Strings whose characters matter (the --ads selector, the   *)
(* description) are sequences of one-character strings.  A timestamp is    *)
(* the ISO text written by datetime.isoformat(), modelled as the record    *)
(* [day, frac] with frac counted in ticks of 1/TicksPerDay day.            *)
(***************************************************************************)
EXTENDS Integers, Sequences, FiniteSets, TLC

VARIABLES
    storage,        \* ad file -> the YAML document stored in it
    config,         \* self.config (publishing options, description affixes)
    command,        \* self.command
    ads_selector,   \* self.ads_selector
    keep_old_ads,   \* self.keep_old_ads
    ads,            \* the list load_ads returned: <<ad_file, ad_cfg, ad_cfg_orig>>
    pc,             \* where the run stands
    idx,            \* position of the for loop of publish_ads / delete_ads
    count,          \* the loop's count variable
    published_ads,  \* the listing snapshot fetched at the start of the loop
    remote,         \* the listings the marketplace holds
    requests,       \* the delete requests sent so far, in order
    now,            \* datetime.utcnow(), in ticks
    nextId,         \* the id the marketplace gives the next published ad
    warned,         \* whether run logged the selector fallback warning
    runs,           \* the number of runs started so far
    error,          \* the exception that ended the run, "" when none
    summary,        \* the count of the run's "DONE: ..." summary line, None before it is logged
    form,           \* the shipping dialog of the publish form
    page,           \* the ad page the extractor has open
    gateway,        \* the shipping options the marketplace's gateway answers with
    download,       \* config.download of the extractor
    extracted,      \* what the extractor has read from the page so far
    info,           \* the record _extract_ad_page_info has built
    overview,       \* the pages of the management list of own ads
    multi_page,     \* extract_own_ads_urls: multi_page
    current_page,   \* extract_own_ads_urls: current_page
    refs,           \* extract_own_ads_urls: refs
    log,            \* extract_own_ads_urls: the kinds of the messages logged
    deleted         \* history: the ad files the delete command has processed and
                    \* that no later publish has given an id again

vars == <<storage, config, command, ads_selector, keep_old_ads, ads, pc, idx, count,
          published_ads, remote, requests, now, nextId, warned, runs, error, summary, deleted,
          form, page, gateway, download, extracted, info, overview, multi_page, current_page,
          refs, log>>

\* the state of the extractor
extraction_vars == <<page, gateway, download, extracted, info, overview, multi_page,
                     current_page, refs, log>>

\* the state of the orchestration
orchestration_vars == <<storage, config, command, ads_selector, keep_old_ads, ads, idx, count,
                        published_ads, remote, requests, now, nextId, warned, runs, error,
                        summary, deleted, form>>

----------------------------------------------------------------------------
(* Bounds of the model *)

\* number of ad files the glob patterns find
NumAdFiles == 2
\* longest --ads argument that is not one of the keywords
MaxSelLen == 3
\* runs of the program one behaviour holds
MaxRuns == 1
\* runs of the program in the specification of repeated runs
MaxReruns == 2
\* the ticks of the clock between two runs of the program
RunInterval == 3
\* the id the marketplace gives the first ad published; smaller ids are taken
FirstNewId == 10
\* the most pages the management list of own ads has
MaxPages == 3
\* the most items a page of the management list has
MaxItems == 2

----------------------------------------------------------------------------
(* Python values *)

None == -1
Missing == -2

\* Python truthiness of a number-or-None: None and 0 are falsy
Truthy(v) == v # None /\ v # Missing /\ v # 0

\* ticks per day of the model's clock
TicksPerDay == 2

\* datetime.isoformat(): the text of an instant
isoformat(t) == [day |-> t \div TicksPerDay, frac |-> t % TicksPerDay]

\* utils.parse_datetime: the instant of an ISO text
parse_datetime(s) == s.day * TicksPerDay + s.frac

\* timedelta.days of (a - b): the floor of the difference in days
timedelta_days(a, b) == (a - b) \div TicksPerDay

----------------------------------------------------------------------------
(* Strings as sequences of characters *)

Digits == {"0", "1", "2"}
DigitValue(c) == CASE c = "0" -> 0 [] c = "1" -> 1 [] c = "2" -> 2 [] OTHER -> 0

Str_all == <<"a", "l", "l">>
Str_due == <<"d", "u", "e">>
Str_new == <<"n", "e", "w">>

\* str.lower() on the characters of the model
LowerChar(c) == CASE c = "D" -> "d" [] c = "U" -> "u" [] c = "E" -> "e" [] OTHER -> c
Lower(s) == [i \in 1..Len(s) |-> LowerChar(s[i])]

\* str.strip(): leading and trailing blanks removed
RECURSIVE LStrip(_)
LStrip(s) == IF s # <<>> /\ Head(s) = " " THEN LStrip(Tail(s)) ELSE s
RECURSIVE RStrip(_)
RStrip(s) == IF s # <<>> /\ s[Len(s)] = " " THEN RStrip(SubSeq(s, 1, Len(s) - 1)) ELSE s
Strip(s) == RStrip(LStrip(s))

\* re.compile(r'\d+[,\d+]*').search(s): some position starts a run of one or
\* more digits, followed by any number of characters of the class [,\d+]
RegexSearch(s) ==
    \E i \in 1..Len(s) : \E j \in i..Len(s) : \E m \in j..Len(s) :
        /\ \A k \in i..j : s[k] \in Digits
        /\ \A k \in (j + 1)..m : s[k] \in Digits \cup {",", "+"}

\* s.split(','): the parts between the commas (always at least one part)
RECURSIVE Split(_)
Split(s) ==
    IF \A i \in 1..Len(s) : s[i] # ","
    THEN <<s>>
    ELSE LET p == CHOOSE i \in 1..Len(s) : s[i] = "," /\ \A k \in 1..(i - 1) : s[k] # ","
         IN  <<SubSeq(s, 1, p - 1)>> \o Split(SubSeq(s, p + 1, Len(s)))

\* int(n) succeeds on a non-empty run of digits (blanks around it are stripped)
IntOk(n) == LET t == Strip(n) IN t # <<>> /\ \A i \in 1..Len(t) : t[i] \in Digits
RECURSIVE IntDigits(_)
IntDigits(t) == IF t = <<>> THEN 0 ELSE 10 * IntDigits(SubSeq(t, 1, Len(t) - 1)) + DigitValue(t[Len(t)])
ToInt(n) == IntDigits(Strip(n))

\* str.replace("@", "(at)")
RECURSIVE ReplaceAt(_)
ReplaceAt(s) ==
    IF s = <<>> THEN <<>>
    ELSE (IF Head(s) = "@" THEN <<"(", "a", "t", ")">> ELSE <<Head(s)>>) \o ReplaceAt(Tail(s))

----------------------------------------------------------------------------
(* Ad records *)

AdFiles == 1..NumAdFiles

\* a timestamp field holding None
NoStamp == [day |-> None, frac |-> 0]
StampSet(v) == v # NoStamp

\* len(title) of the titles the model uses
TitleLen(t) == IF t = "short" THEN 5 ELSE 12

\* the description limit of load_ads
MaxDescriptionLen == 4000
\* the title minimum of load_ads
MinTitleLen == 10

\* self.categories after load_config: category path (its '>'-separated
\* segments) -> category id
categories == (<<"161/172">> :> "id-172") @@ (<<"Elektronik", "Audio">> :> "id-225")
categories_get(path) == IF path \in DOMAIN categories THEN categories[path] ELSE ""

\* glob.glob(image_pattern) made absolute: the files a pattern of the ad matches
GlobImages(pattern) == IF pattern = "*.jpg" THEN <<"/ads/a.jpg", "/ads/b.jpg">> ELSE <<>>

RECURSIVE ExpandImages(_)
ExpandImages(patterns) ==
    IF patterns = <<>> THEN <<>> ELSE GlobImages(Head(patterns)) \o ExpandImages(Tail(patterns))

\* list(dict.fromkeys(images)): duplicates dropped, first occurrence kept
RECURSIVE Dedup(_)
Dedup(s) ==
    IF s = <<>> THEN <<>>
    ELSE LET r == Dedup(SubSeq(s, 1, Len(s) - 1)) IN
         IF \E i \in 1..Len(r) : r[i] = s[Len(s)] THEN r ELSE Append(r, s[Len(s)])

\* utils.apply_defaults(ad_cfg, ad_defaults, ignore description, override "")
\* followed by apply_defaults(ad_cfg, ad_fields): a key the document lacks, or
\* holds as "", takes the default; ad_fields gives None to what is still unset
apply_defaults(doc, ad_defaults) ==
    [doc EXCEPT
        !.active = IF @ = Missing THEN ad_defaults.active ELSE @,
        !.type = IF @ = "" THEN ad_defaults.type ELSE @,
        !.price_type = IF @ = "" THEN ad_defaults.price_type ELSE @,
        !.shipping_type = IF @ = "" THEN ad_defaults.shipping_type ELSE @,
        !.republication_interval = IF @ = Missing THEN ad_defaults.republication_interval ELSE @,
        !.contact_name = IF @ = "" THEN ad_defaults.contact_name ELSE @,
        !.id = IF @ = Missing THEN None ELSE @,
        !.price = IF @ = Missing THEN None ELSE @]

----------------------------------------------------------------------------
(* load_ads *)

InSeq(x, s) == \E i \in 1..Len(s) : s[i] = x

\* load_ads, lines 281-287: whether the selector names specific ids
use_specific_ads(selector) == RegexSearch(selector)

\* ids = [int(n) for n in self.ads_selector.split(',')] raises ValueError
\* when a part is not an integer
IdsParseOk(selector) == \A i \in 1..Len(Split(selector)) : IntOk(Split(selector)[i])
ParseIds(selector) == [i \in 1..Len(Split(selector)) |-> ToInt(Split(selector)[i])]

\* a variant of last_updated_on that takes the later of the two timestamps
last_updated_on_latest(ad_cfg) ==
    IF StampSet(ad_cfg.updated_on) /\ StampSet(ad_cfg.created_on)
    THEN (IF parse_datetime(ad_cfg.created_on) > parse_datetime(ad_cfg.updated_on)
          THEN ad_cfg.created_on ELSE ad_cfg.updated_on)
    ELSE IF StampSet(ad_cfg.updated_on) THEN ad_cfg.updated_on
    ELSE IF StampSet(ad_cfg.created_on) THEN ad_cfg.created_on
    ELSE NoStamp

\* load_ads, lines 311-316: the timestamp the age is taken from
last_updated_on(ad_cfg) ==
    IF StampSet(ad_cfg.updated_on) THEN ad_cfg.updated_on
    ELSE IF StampSet(ad_cfg.created_on) THEN ad_cfg.created_on
    ELSE NoStamp

\* a variant of NotYetDue that compares with < instead of <=
NotYetDue_strict(ad_cfg, t) ==
    /\ StampSet(last_updated_on(ad_cfg))
    /\ timedelta_days(t, parse_datetime(last_updated_on(ad_cfg))) < ad_cfg.republication_interval

\* load_ads, lines 318-320: ad_age.days <= ad_cfg["republication_interval"]
NotYetDue(ad_cfg, t) ==
    /\ StampSet(last_updated_on(ad_cfg))
    /\ timedelta_days(t, parse_datetime(last_updated_on(ad_cfg))) <= ad_cfg.republication_interval

\* a variant of Selection that looks at the given ids before the active flag
Selection_ids_first(ad_cfg, selector, ignore_inactive, check_id, t) ==
    IF use_specific_ads(selector)
    THEN (IF ~InSeq(ad_cfg.id, ParseIds(selector)) THEN "not_in_ids" ELSE "selected")
    ELSE IF ignore_inactive /\ ~Truthy(ad_cfg.active) THEN "inactive"
    ELSE IF selector = Str_new /\ Truthy(ad_cfg.id) /\ check_id THEN "not_new"
    ELSE IF selector = Str_due /\ NotYetDue(ad_cfg, t) THEN "not_due"
    ELSE "selected"

\* load_ads, lines 297-326: what the selection does with one effective record
Selection(ad_cfg, selector, ignore_inactive, check_id, t) ==
    IF ignore_inactive /\ ~Truthy(ad_cfg.active) THEN "inactive"
    ELSE IF use_specific_ads(selector)
         THEN (IF ~InSeq(ad_cfg.id, ParseIds(selector)) THEN "not_in_ids" ELSE "selected")
    ELSE IF selector = Str_new /\ Truthy(ad_cfg.id) /\ check_id THEN "not_new"
    ELSE IF selector = Str_due /\ NotYetDue(ad_cfg, t) THEN "not_due"
    ELSE "selected"

\* load_ads, lines 346-350: the price rules
PriceOk(ad_cfg) ==
    IF ad_cfg.price_type = "GIVE_AWAY" THEN ~Truthy(ad_cfg.price)
    ELSE IF ad_cfg.price_type = "FIXED" THEN Truthy(ad_cfg.price)
    ELSE TRUE

\* load_ads, lines 328-330: the description the form gets
EffectiveDescription(ad_cfg, cfg) ==
    ReplaceAt(cfg.descr_prefix \o ad_cfg.description \o cfg.descr_suffix)

\* load_ads, lines 328-354: every ensure(...) of the validation holds
Valid(ad_cfg, cfg) ==
    /\ Len(EffectiveDescription(ad_cfg, cfg)) <= MaxDescriptionLen
    /\ ad_cfg.type \in {"OFFER", "WANTED"}
    /\ TitleLen(ad_cfg.title) >= MinTitleLen
    /\ EffectiveDescription(ad_cfg, cfg) # <<>>
    /\ ad_cfg.price_type \in {"FIXED", "NEGOTIABLE", "GIVE_AWAY", "NOT_APPLICABLE"}
    /\ PriceOk(ad_cfg)
    /\ ad_cfg.shipping_type \in {"PICKUP", "SHIPPING", "NOT_APPLICABLE"}
    /\ ad_cfg.contact_name # ""
    /\ Truthy(ad_cfg.republication_interval)

\* str.strip() of a category path: blanks before its first and after its last
\* segment are dropped (the blanks the model's paths have are those of "161/172 ")
StripPath(path) ==
    IF path = <<>> THEN path
    ELSE [path EXCEPT ![Len(path)] = IF @ = "161/172 " THEN "161/172" ELSE @]

\* load_ads, line 363: category.rpartition(">")[0].strip()
parent_category(category) == StripPath(SubSeq(category, 1, Len(category) - 1))

\* a variant of ResolveCategory without the fallback to the parent
ResolveCategory_exact_only(category) ==
    IF category = <<>> THEN <<>>
    ELSE IF categories_get(category) # "" THEN <<categories_get(category)>>
    ELSE category

\* load_ads, lines 359-371: the category id, with the fallback to the parent
\* of a compound path parent>child
ResolveCategory(category) ==
    IF category = <<>> THEN <<>>
    ELSE IF categories_get(category) # "" THEN <<categories_get(category)>>
    ELSE IF Len(category) > 1 /\ categories_get(parent_category(category)) # ""
         THEN <<categories_get(parent_category(category))>>
    ELSE category

\* load_ads, lines 361-368: the warning "Category [...] unknown. Using category
\* [...] with ID [...] instead." is logged
CategoryFallbackWarning(category) ==
    /\ category # <<>>
    /\ categories_get(category) = ""
    /\ Len(category) > 1
    /\ categories_get(parent_category(category)) # ""

\* load_ads, lines 328-390: the effective record handed to the orchestrators
Resolve(ad_cfg, cfg) ==
    [ad_cfg EXCEPT
        !.description = EffectiveDescription(ad_cfg, cfg),
        !.category = ResolveCategory(@),
        !.images = Dedup(ExpandImages(@))]

\* load_ads, lines 291-396: the loop over the sorted ad files from file f on.
\* An ensure that fails raises out of load_ads: error is set and no list returned.
RECURSIVE LoadFrom(_, _, _, _, _, _, _)
LoadFrom(f, docs, cfg, selector, ignore_inactive, check_id, t) ==
    IF f > NumAdFiles THEN [error |-> "", ads |-> <<>>]
    ELSE LET ad_cfg_orig == docs[f]
             ad_cfg == apply_defaults(ad_cfg_orig, cfg.ad_defaults)
             rest == LoadFrom(f + 1, docs, cfg, selector, ignore_inactive, check_id, t)
         IN  IF Selection(ad_cfg, selector, ignore_inactive, check_id, t) # "selected" THEN rest
             ELSE IF ~Valid(ad_cfg, cfg) THEN [error |-> "AssertionError", ads |-> <<>>]
             ELSE IF rest.error # "" THEN rest
             ELSE [error |-> "",
                   ads |-> <<[ad_file |-> f, ad_cfg |-> Resolve(ad_cfg, cfg),
                              ad_cfg_orig |-> ad_cfg_orig]>> \o rest.ads]

\* load_ads, lines 265-399
load_ads(docs, cfg, selector, ignore_inactive, check_id, t) ==
    IF use_specific_ads(selector) /\ ~IdsParseOk(selector)
    THEN [error |-> "ValueError", ads |-> <<>>]
    ELSE LoadFrom(1, docs, cfg, selector, ignore_inactive, check_id, t)

----------------------------------------------------------------------------
(* The remote marketplace and delete_ad *)

\* WebScrapingMixin.web_request: the call returns when the response's status
\* is one of valid_response_codes, and raises otherwise
web_request_ok(status, valid_response_codes) == status \in valid_response_codes

\* the marketplace's answer to POST m-anzeigen-loeschen.json?ids=<id>
DeleteStatus(listings, id) == IF \E l \in listings : l.id = id THEN 200 ELSE 404
RemoteAfterDelete(listings, id) == {l \in listings : l.id # id}

\* json.loads(...)["ads"]: the listings as a list, in the order of the ids
RECURSIVE ListingsAsList(_)
ListingsAsList(listings) ==
    IF listings = {} THEN <<>>
    ELSE LET l == CHOOSE x \in listings : \A y \in listings : x.id <= y.id
         IN  <<l>> \o ListingsAsList(listings \ {l})

\* a variant of TitleModeMatch that compares the ids only
TitleModeMatch_id_only(ad_cfg, published_ad) == ad_cfg.id = published_ad.id

\* delete_ad, line 520: whether a listing of the snapshot is deleted by title mode
TitleModeMatch(ad_cfg, published_ad) ==
    ad_cfg.id = published_ad.id \/ ad_cfg.title = published_ad.title

\* delete_ad, lines 517-526: the loop over the snapshot from position i on.
\* The result holds the requests sent, the listings left and whether a
\* request raised (which ends the loop).
RECURSIVE DeleteByTitle(_, _, _, _, _)
DeleteByTitle(i, ad_cfg, snapshot, listings, csrf_token) ==
    IF i > Len(snapshot) THEN [sent |-> <<>>, listings |-> listings, raised |-> FALSE]
    ELSE IF ~TitleModeMatch(ad_cfg, snapshot[i])
         THEN DeleteByTitle(i + 1, ad_cfg, snapshot, listings, csrf_token)
    ELSE LET st == DeleteStatus(listings, snapshot[i].id)
             req == [id |-> snapshot[i].id, csrf |-> csrf_token, status |-> st]
         IN  IF ~web_request_ok(st, {200})
             THEN [sent |-> <<req>>, listings |-> listings, raised |-> TRUE]
             ELSE LET rest == DeleteByTitle(i + 1, ad_cfg, snapshot,
                                            RemoteAfterDelete(listings, snapshot[i].id), csrf_token)
                  IN  [rest EXCEPT !.sent = <<req>> \o @]

\* delete_ad, lines 527-533: the single request for the ad's own id
DeleteById(ad_cfg, listings, csrf_token) ==
    IF ~Truthy(ad_cfg.id) THEN [sent |-> <<>>, listings |-> listings, raised |-> FALSE]
    ELSE LET st == DeleteStatus(listings, ad_cfg.id)
         IN  [sent |-> <<[id |-> ad_cfg.id, csrf |-> csrf_token, status |-> st]>>,
              listings |-> RemoteAfterDelete(listings, ad_cfg.id),
              raised |-> ~web_request_ok(st, {200, 404})]

\* a variant of delete_ad that does not check the content of the meta element
delete_ad_without_token_check(ad_cfg, delete_old_ads_by_title, snapshot, listings, csrf) ==
    IF csrf = "timeout"
    THEN [sent |-> <<>>, listings |-> listings, error |-> "TimeoutError", ad_cfg |-> ad_cfg]
    ELSE LET r == IF delete_old_ads_by_title
                  THEN DeleteByTitle(1, ad_cfg, snapshot, listings, csrf)
                  ELSE DeleteById(ad_cfg, listings, csrf)
         IN  [sent |-> r.sent, listings |-> r.listings,
              error |-> IF r.raised THEN "AssertionError" ELSE "",
              ad_cfg |-> IF r.raised THEN ad_cfg ELSE [ad_cfg EXCEPT !.id = None]]

\* delete_ad, lines 507-537.  csrf is what the management page holds: a token,
\* "None" (the meta element has no content) or "timeout" (no meta element).
delete_ad(ad_cfg, delete_old_ads_by_title, snapshot, listings, csrf) ==
    IF csrf = "timeout"
    THEN [sent |-> <<>>, listings |-> listings, error |-> "TimeoutError", ad_cfg |-> ad_cfg]
    ELSE IF csrf = "None"
    THEN [sent |-> <<>>, listings |-> listings, error |-> "AssertionError", ad_cfg |-> ad_cfg]
    ELSE LET r == IF delete_old_ads_by_title
                  THEN DeleteByTitle(1, ad_cfg, snapshot, listings, csrf)
                  ELSE DeleteById(ad_cfg, listings, csrf)
         IN  [sent |-> r.sent, listings |-> r.listings,
              error |-> IF r.raised THEN "AssertionError" ELSE "",
              ad_cfg |-> IF r.raised THEN ad_cfg ELSE [ad_cfg EXCEPT !.id = None]]

\* a variant of PublishWriteBack that sets created_on whenever it is absent
PublishWriteBack_created_if_absent(ad_cfg, ad_cfg_orig, t, ad_id) ==
    [ad_cfg_orig EXCEPT
        !.updated_on = isoformat(t),
        !.created_on = IF ~StampSet(ad_cfg.created_on) THEN isoformat(t) ELSE @,
        !.id = ad_id]

\* a variant of PublishWriteBack that writes into the effective record
PublishWriteBack_effective(ad_cfg, ad_cfg_orig, t, ad_id) ==
    [ad_cfg EXCEPT
        !.updated_on = isoformat(t),
        !.created_on = IF ~StampSet(ad_cfg.created_on) /\ ~Truthy(ad_cfg.id)
                       THEN isoformat(t) ELSE @,
        !.id = ad_id]

\* publish_ad, lines 739-746: what a confirmed publish writes into the
\* original record
PublishWriteBack(ad_cfg, ad_cfg_orig, t, ad_id) ==
    [ad_cfg_orig EXCEPT
        !.updated_on = isoformat(t),
        !.created_on = IF ~StampSet(ad_cfg.created_on) /\ ~Truthy(ad_cfg.id)
                       THEN isoformat(t) ELSE @,
        !.id = ad_id]

----------------------------------------------------------------------------
(* Inputs *)

\* config["ad_defaults"] of the model's config.yaml
ad_defaults ==
    [active |-> 1, type |-> "OFFER", price_type |-> "NEGOTIABLE", shipping_type |-> "SHIPPING",
     republication_interval |-> 7, contact_name |-> "Seller"]

\* an ad file that leaves everything it may to the defaults
BaseDoc ==
    [id |-> None, title |-> "Title of ad A", description |-> <<"d", "@">>, active |-> Missing,
     type |-> "", price_type |-> "", price |-> Missing, shipping_type |-> "",
     contact_name |-> "", category |-> <<"161/172", "sonstige">>, images |-> <<"*.jpg">>,
     created_on |-> NoStamp, updated_on |-> NoStamp, republication_interval |-> Missing,
     shipping_options |-> <<>>]

Configs ==
    [delete_old_ads : {"BEFORE_PUBLISH", "AFTER_PUBLISH", "NEVER"},
     delete_old_ads_by_title : BOOLEAN,
     descr_prefix : {<<"p">>}, descr_suffix : {<<>>},
     ad_defaults : {ad_defaults}]

\* the --ads arguments that are no keyword: the strings of up to MaxSelLen
\* characters over digits, comma and a letter
SelChars == {"1", "2", ",", "x"}
RECURSIVE StringsUpTo(_)
StringsUpTo(n) ==
    IF n = 0 THEN {<<>>}
    ELSE StringsUpTo(n - 1) \cup {Append(s, c) : s \in StringsUpTo(n - 1), c \in SelChars}
AllArgs == (StringsUpTo(MaxSelLen) \ {<<>>}) \cup {Str_all, Str_due, Str_new, <<"D", "U", "E">>, <<" ", "1">>}

----------------------------------------------------------------------------
(* run *)

\* parse_args, line 230: --ads=<value>
parse_ads_option(value) == Lower(Strip(value))

\* run, lines 87-89 and 113-115: the selector after the per-command fallback
FallbackSelector(cmd, selector) ==
    IF cmd = "publish" /\ ~(selector \in {Str_all, Str_new, Str_due} \/ RegexSearch(selector))
    THEN Str_due
    ELSE IF cmd = "download" /\ ~(selector \in {Str_all, Str_new} \/ RegexSearch(selector))
    THEN Str_new
    ELSE selector

\* download_ads, lines 932-984, as far as the selector and the ad files decide
\* it: the exception it ends with, "" when none
download_ads_error(docs, cfg, selector, t) ==
    IF selector = Str_new
    THEN LET loaded == load_ads(docs, cfg, selector, FALSE, FALSE, t)
         IN  IF loaded.error # "" THEN loaded.error
             ELSE IF \E i \in 1..Len(loaded.ads) : loaded.ads[i].ad_cfg_orig.id \in {None, Missing}
                  THEN "TypeError"   \* int(ad[2]['id']) of an ad without id
             ELSE ""
    ELSE IF selector # Str_all /\ RegexSearch(selector) /\ ~IdsParseOk(selector) THEN "ValueError"
    ELSE ""

\* run, lines 68-125, up to the call of publish_ads / delete_ads: a new process
\* starts, RunInterval ticks after the last one, with command cmd, --ads=arg
\* and --keep-old as given
RunWith(cmds, args, keeps, max_runs) ==
    /\ pc = "idle"
    /\ runs < max_runs
    /\ \E cmd \in cmds, arg \in args, keep \in keeps :
        LET sel == FallbackSelector(cmd, parse_ads_option(arg))
            t == now + RunInterval
            loaded == load_ads(storage, config, sel, TRUE, TRUE, t)
            err == IF cmd = "download" THEN download_ads_error(storage, config, sel, t)
                   ELSE loaded.error
        IN  /\ command' = cmd
            /\ ads_selector' = sel
            /\ keep_old_ads' = keep
            /\ warned' = (sel # parse_ads_option(arg))
            /\ ads' = IF cmd = "download" \/ err # "" THEN <<>> ELSE loaded.ads
            /\ error' = err
            /\ pc' = IF err # "" THEN "aborted"
                     ELSE IF cmd = "publish" /\ loaded.ads # <<>> THEN "publish_ads"
                     ELSE IF cmd = "delete" /\ loaded.ads # <<>> THEN "delete_ads"
                     ELSE "done"
    /\ runs' = runs + 1
    /\ idx' = 0
    /\ count' = 0
    /\ published_ads' = <<>>
    /\ requests' = <<>>
    /\ now' = now + RunInterval
    /\ summary' = None
    /\ UNCHANGED <<extraction_vars, form, storage, config, remote, nextId, deleted>>

----------------------------------------------------------------------------
(* publish_ads and publish_ad *)

CsrfStates == {"token", "None", "timeout"}

\* publish_ads, lines 540-543: the snapshot is fetched once
PublishAdsFetch ==
    /\ pc = "publish_ads"
    /\ published_ads' = ListingsAsList(remote)
    /\ idx' = 1
    /\ count' = 0
    /\ pc' = "publish_loop"
    /\ UNCHANGED <<extraction_vars, form, storage, config, command, ads_selector, keep_old_ads, ads, remote, requests,
                   now, nextId, warned, runs, error, deleted, summary>>

\* a variant of IsReserved that never finds a reserved listing
IsReserved_never(ad_cfg, snapshot) ==
    \E i \in 1..Len(snapshot) : snapshot[i].id = ad_cfg.id /\ snapshot[i].state = "reserved"

\* publish_ads, line 548: the ad's listing is reserved
IsReserved(ad_cfg, snapshot) ==
    \E i \in 1..Len(snapshot) : snapshot[i].id = ad_cfg.id /\ snapshot[i].state = "paused"

\* publish_ads, lines 545-552 and 560-562: the head of the for loop
PublishLoop ==
    /\ pc = "publish_loop"
    /\ IF idx > Len(ads)
       THEN /\ pc' = "done"
            /\ summary' = count
            /\ UNCHANGED <<idx, count>>
       ELSE IF IsReserved(ads[idx].ad_cfg, published_ads)
       THEN /\ idx' = idx + 1
            /\ UNCHANGED <<pc, count, summary>>
       ELSE /\ count' = count + 1
            /\ pc' = "publish_ad"
            /\ UNCHANGED <<idx, summary>>
    /\ UNCHANGED <<extraction_vars, form, storage, config, command, ads_selector, keep_old_ads, ads, published_ads,
                   remote, requests, now, nextId, warned, runs, error, deleted>>

\* a variant of DeletesBeforePublish that ignores --keep-old
DeletesBeforePublish_ignores_keep_old == config.delete_old_ads = "BEFORE_PUBLISH"

\* a variant of DeletesBeforePublish that also deletes first when the
\* configuration asks for the deletion after the publish
DeletesBeforePublish_also_after ==
    config.delete_old_ads \in {"BEFORE_PUBLISH", "AFTER_PUBLISH"} /\ ~keep_old_ads

\* publish_ad, line 572
DeletesBeforePublish == config.delete_old_ads = "BEFORE_PUBLISH" /\ ~keep_old_ads
\* publish_ads, line 557
DeletesAfterPublish == config.delete_old_ads = "AFTER_PUBLISH" /\ ~keep_old_ads

\* a variant of AssertFreeAdLimit that reports the banner and goes on with the ad
AssertFreeAdLimit_not_fatal ==
    /\ pc = "publish_ad"
    /\ \E banner \in BOOLEAN :
        /\ error' = IF banner THEN "AssertionError" ELSE error
        /\ pc' = IF DeletesBeforePublish THEN "delete_before" ELSE "fill_form"
    /\ UNCHANGED <<extraction_vars, form, storage, config, command, ads_selector, keep_old_ads, ads, idx, count,
                   published_ads, remote, requests, now, nextId, warned, runs, deleted, summary>>

\* publish_ad, line 570 (assert_free_ad_limit_not_reached, lines 916-921):
\* the limit banner is found within the wait, or it is not
AssertFreeAdLimit ==
    /\ pc = "publish_ad"
    /\ \E banner \in BOOLEAN :
        IF banner
        THEN /\ error' = "AssertionError"
             /\ pc' = "aborted"
        ELSE /\ pc' = IF DeletesBeforePublish THEN "delete_before" ELSE "fill_form"
             /\ UNCHANGED error
    /\ UNCHANGED <<extraction_vars, form, storage, config, command, ads_selector, keep_old_ads, ads, idx, count,
                   published_ads, remote, requests, now, nextId, warned, runs, deleted, summary>>

\* publish_ad, lines 572-573: delete_ad on the effective record before the form
DeleteBeforePublish ==
    /\ pc = "delete_before"
    /\ \E csrf \in CsrfStates :
        LET r == delete_ad(ads[idx].ad_cfg, config.delete_old_ads_by_title, published_ads,
                           remote, csrf)
        IN  /\ requests' = requests \o r.sent
            /\ remote' = r.listings
            /\ ads' = [ads EXCEPT ![idx].ad_cfg = r.ad_cfg]
            /\ error' = r.error
            /\ pc' = IF r.error # "" THEN "aborted" ELSE "fill_form"
    /\ UNCHANGED <<extraction_vars, form, storage, config, command, ads_selector, keep_old_ads, idx, count,
                   published_ads, now, nextId, warned, runs, deleted, summary>>

\* __set_shipping_options, lines 848-857: option name -> (package size, package)
shipping_options_mapping ==
    [o \in {"DHL_2", "Hermes_Päckchen", "Hermes_S", "DHL_5", "Hermes_M", "DHL_10",
            "DHL_31,5", "Hermes_L"} |->
        CASE o = "DHL_2" -> <<"Klein", "Paket 2 kg">>
          [] o = "Hermes_Päckchen" -> <<"Klein", "Päckchen">>
          [] o = "Hermes_S" -> <<"Klein", "S-Paket">>
          [] o = "DHL_5" -> <<"Mittel", "Paket 5 kg">>
          [] o = "Hermes_M" -> <<"Mittel", "M-Paket">>
          [] o = "DHL_10" -> <<"Groß", "Paket 10 kg">>
          [] o = "DHL_31,5" -> <<"Groß", "Paket 31,5 kg">>
          [] o = "Hermes_L" -> <<"Groß", "L-Paket">>]

\* a variant of set_shipping_options that takes the size of the first option
\* and does not compare the sizes
set_shipping_options_first_size(shipping_options) ==
    LET options == {shipping_options[i] : i \in 1..Len(shipping_options)} IN
    IF \E o \in options : o \notin DOMAIN shipping_options_mapping
    THEN [error |-> "KeyError", shipping_size |-> "", shipping_packages |-> {}]
    ELSE [error |-> "", shipping_size |-> shipping_options_mapping[shipping_options[1]][1],
          shipping_packages |-> {shipping_options_mapping[o][2] : o \in options}]

\* __set_shipping_options, lines 858-871, called with a non-empty list: the
\* exception it raises ("" when none), the package size and the packages
set_shipping_options(shipping_options) ==
    LET options == {shipping_options[i] : i \in 1..Len(shipping_options)} IN
    IF \E o \in options : o \notin DOMAIN shipping_options_mapping
    THEN [error |-> "KeyError", shipping_size |-> "", shipping_packages |-> {}]
    ELSE LET shipping_sizes == {shipping_options_mapping[o][1] : o \in options} IN
         IF Cardinality(shipping_sizes) # 1
         THEN [error |-> "ValueError", shipping_size |-> "", shipping_packages |-> {}]
         ELSE [error |-> "", shipping_size |-> CHOOSE z \in shipping_sizes : TRUE,
               shipping_packages |-> {shipping_options_mapping[o][2] : o \in options}]

\* publish_ad, lines 604-621: __set_shipping_options is called for an ad that
\* is not WANTED, not PICKUP and names shipping options
UsesShippingOptions(ad_cfg) ==
    /\ ad_cfg.type # "WANTED"
    /\ ad_cfg.shipping_type # "PICKUP"
    /\ ad_cfg.shipping_options # <<>>

\* the shipping dialog before it is opened
NoForm == [open |-> FALSE, size |-> "", selected |-> {}, was_checked |-> FALSE, timeout |-> FALSE]

\* the packages the dialog offers for a package size
CarriersOf(size) ==
    {shipping_options_mapping[o][2] :
        o \in {k \in DOMAIN shipping_options_mapping : shipping_options_mapping[k][1] = size}}

\* the dialog as the site opens it: no size is active, or a size is active
\* and all its packages are selected
DialogStates ==
    {[open |-> TRUE, size |-> z, selected |-> IF z = "" THEN {} ELSE CarriersOf(z),
      was_checked |-> FALSE, timeout |-> FALSE] : z \in {"", "Klein", "Mittel", "Groß"}}

\* where a wait of __set_shipping_options can time out besides the clicks on
\* the packages: at the radio button (web_find), at the first click ("Weiter"
\* or the radio button) and at "Fertig"
TimeoutPoints == {"none", "find", "first_click", "done"}

\* a click on a package of the dialog selects it, or deselects it when it was
\* selected
ClickPackages(selected, packages) == (selected \ packages) \cup (packages \ selected)

\* a variant of set_shipping_options_dialog that clicks the requested
\* packages whether or not the size was checked
set_shipping_options_dialog_clicks_requested(shipping_size, shipping_packages, dialog, at, failed) ==
    IF at \in {"find", "first_click"} THEN [dialog EXCEPT !.timeout = TRUE]
    ELSE LET shipping_size_radio_is_checked == dialog.size = shipping_size
             after_first == IF shipping_size_radio_is_checked THEN dialog
                            ELSE [dialog EXCEPT !.size = shipping_size, !.selected = {}]
             to_be_clicked_shipping_packages == shipping_packages
         IN  [open |-> at = "done",
              size |-> shipping_size,
              selected |-> ClickPackages(after_first.selected,
                                         to_be_clicked_shipping_packages \ failed),
              was_checked |-> shipping_size_radio_is_checked,
              timeout |-> at = "done" \/ to_be_clicked_shipping_packages \cap failed # {}]

\* __set_shipping_options, lines 873-905, on the opened dialog.  failed are
\* the packages whose click times out (logged, line 901); a timeout at one of
\* the other waits ends the function (logged, line 905).
set_shipping_options_dialog(shipping_size, shipping_packages, dialog, at, failed) ==
    IF at \in {"find", "first_click"} THEN [dialog EXCEPT !.timeout = TRUE]
    ELSE LET shipping_size_radio_is_checked == dialog.size = shipping_size
             after_first == IF shipping_size_radio_is_checked THEN dialog
                            ELSE [dialog EXCEPT !.size = shipping_size, !.selected = {}]
             unwanted_shipping_packages == CarriersOf(shipping_size) \ shipping_packages
             to_be_clicked_shipping_packages ==
                 IF shipping_size_radio_is_checked THEN unwanted_shipping_packages
                 ELSE shipping_packages
         IN  [open |-> at = "done",
              size |-> shipping_size,
              selected |-> ClickPackages(after_first.selected,
                                         to_be_clicked_shipping_packages \ failed),
              was_checked |-> shipping_size_radio_is_checked,
              timeout |-> at = "done" \/ to_be_clicked_shipping_packages \cap failed # {}]

\* publish_ad, lines 581-735: the form is filled in and submitted, or a
\* required element is not found in time and the TimeoutError leaves
\* publish_ad, or __set_shipping_options raises.  The shipping dialog is
\* worked through when the ad names shipping options (lines 617-620).
FillAndSubmit ==
    /\ pc = "fill_form"
    /\ \E timeout \in BOOLEAN :
        LET ad_cfg == ads[idx].ad_cfg
            uses == UsesShippingOptions(ad_cfg)
            shipping == IF uses THEN set_shipping_options(ad_cfg.shipping_options)
                        ELSE [error |-> "", shipping_size |-> "", shipping_packages |-> {}]
            Dialog == \E dialog \in DialogStates, at \in TimeoutPoints,
                         failed \in SUBSET CarriersOf(shipping.shipping_size) :
                        form' = set_shipping_options_dialog(shipping.shipping_size,
                                    shipping.shipping_packages, dialog, at, failed)
        IN  IF shipping.error # ""
            THEN /\ error' = IF timeout THEN "TimeoutError" ELSE shipping.error
                 /\ pc' = "aborted"
                 /\ UNCHANGED form
            ELSE IF timeout
            THEN /\ error' = "TimeoutError"
                 /\ pc' = "aborted"
                 /\ \/ UNCHANGED form
                    \/ uses /\ Dialog
            ELSE /\ pc' = "submitted"
                 /\ UNCHANGED error
                 /\ IF uses THEN Dialog ELSE UNCHANGED form
    /\ UNCHANGED <<extraction_vars, storage, config, command, ads_selector, keep_old_ads, ads, idx, count,
                   published_ads, remote, requests, now, nextId, warned, runs, deleted, summary>>

\* a variant of ConfirmAndPersist that stamps and saves the original record
\* before the wait for the confirmation URL
ConfirmAndPersist_saves_before_wait ==
    /\ pc = "submitted"
    /\ \E confirmed \in BOOLEAN :
        LET ad == ads[idx]
            stamped == [ad.ad_cfg_orig EXCEPT !.updated_on = isoformat(now)]
        IN  IF ~confirmed
            THEN /\ error' = "TimeoutError"
                 /\ pc' = "aborted"
                 /\ ads' = [ads EXCEPT ![idx].ad_cfg_orig = stamped]
                 /\ storage' = [storage EXCEPT ![ad.ad_file] = stamped]
                 /\ UNCHANGED <<remote, nextId, deleted>>
            ELSE LET ad_id == nextId
                     orig == PublishWriteBack(ad.ad_cfg, ad.ad_cfg_orig, now, ad_id)
                 IN  /\ remote' = remote \cup {[id |-> ad_id, title |-> ad.ad_cfg.title,
                                               state |-> "active"]}
                     /\ nextId' = nextId + 1
                     /\ ads' = [ads EXCEPT ![idx].ad_cfg_orig = orig]
                     /\ storage' = [storage EXCEPT ![ad.ad_file] = orig]
                     /\ deleted' = deleted \ {ad.ad_file}
                     /\ pc' = "published"
                     /\ UNCHANGED error
    /\ UNCHANGED <<extraction_vars, config, command, ads_selector, keep_old_ads, idx, count, published_ads,
                   requests, now, warned, runs, summary>>
    /\ form' = IF pc' = "published" THEN NoForm ELSE form

\* a variant of ConfirmAndPersist that also writes the new id into the
\* effective record
ConfirmAndPersist_id_in_effective ==
    /\ pc = "submitted"
    /\ \E confirmed \in BOOLEAN :
        IF ~confirmed
        THEN /\ error' = "TimeoutError"
             /\ pc' = "aborted"
             /\ UNCHANGED <<storage, ads, remote, nextId, deleted>>
        ELSE LET ad == ads[idx]
                 ad_id == nextId
                 orig == PublishWriteBack(ad.ad_cfg, ad.ad_cfg_orig, now, ad_id)
             IN  /\ remote' = remote \cup {[id |-> ad_id, title |-> ad.ad_cfg.title,
                                           state |-> "active"]}
                 /\ nextId' = nextId + 1
                 /\ ads' = [ads EXCEPT ![idx].ad_cfg_orig = orig, ![idx].ad_cfg.id = ad_id]
                 /\ storage' = [storage EXCEPT ![ad.ad_file] = orig]
                 /\ deleted' = deleted \ {ad.ad_file}
                 /\ pc' = "published"
                 /\ UNCHANGED error
    /\ UNCHANGED <<extraction_vars, config, command, ads_selector, keep_old_ads, idx, count, published_ads,
                   requests, now, warned, runs, summary>>
    /\ form' = IF pc' = "published" THEN NoForm ELSE form

\* publish_ad, lines 737-750: the confirmation URL appears within the wait and
\* the original record is written back and saved, or the wait times out
ConfirmAndPersist ==
    /\ pc = "submitted"
    /\ \E confirmed \in BOOLEAN :
        IF ~confirmed
        THEN /\ error' = "TimeoutError"
             /\ pc' = "aborted"
             /\ UNCHANGED <<storage, ads, remote, nextId, deleted>>
        ELSE LET ad == ads[idx]
                 ad_id == nextId
                 orig == PublishWriteBack(ad.ad_cfg, ad.ad_cfg_orig, now, ad_id)
             IN  /\ remote' = remote \cup {[id |-> ad_id, title |-> ad.ad_cfg.title,
                                           state |-> "active"]}
                 /\ nextId' = nextId + 1
                 /\ ads' = [ads EXCEPT ![idx].ad_cfg_orig = orig]
                 /\ storage' = [storage EXCEPT ![ad.ad_file] = orig]
                 /\ deleted' = deleted \ {ad.ad_file}
                 /\ pc' = "published"
                 /\ UNCHANGED error
    /\ UNCHANGED <<extraction_vars, config, command, ads_selector, keep_old_ads, idx, count, published_ads,
                   requests, now, warned, runs, summary>>
    /\ form' = IF pc' = "published" THEN NoForm ELSE form

\* publish_ads, lines 555-558: the wait for "checking-done", then delete_ad by
\* id on the effective record when old ads are deleted after the publish
AfterPublish ==
    /\ pc = "published"
    /\ \E checking_done \in BOOLEAN, csrf \in CsrfStates :
        IF ~checking_done
        THEN /\ error' = "TimeoutError"
             /\ pc' = "aborted"
             /\ UNCHANGED <<ads, remote, requests, idx>>
        ELSE IF ~DeletesAfterPublish
        THEN /\ idx' = idx + 1
             /\ pc' = "publish_loop"
             /\ UNCHANGED <<ads, remote, requests, error>>
        ELSE LET r == delete_ad(ads[idx].ad_cfg, FALSE, published_ads, remote, csrf)
             IN  /\ requests' = requests \o r.sent
                 /\ remote' = r.listings
                 /\ ads' = [ads EXCEPT ![idx].ad_cfg = r.ad_cfg]
                 /\ error' = r.error
                 /\ pc' = IF r.error # "" THEN "aborted" ELSE "publish_loop"
                 /\ idx' = IF r.error # "" THEN idx ELSE idx + 1
    /\ UNCHANGED <<extraction_vars, form, storage, config, command, ads_selector, keep_old_ads, count, published_ads,
                   now, nextId, warned, runs, deleted, summary>>

----------------------------------------------------------------------------
(* delete_ads *)

\* delete_ads, lines 492-495
DeleteAdsFetch ==
    /\ pc = "delete_ads"
    /\ published_ads' = ListingsAsList(remote)
    /\ idx' = 1
    /\ count' = 0
    /\ pc' = "delete_loop"
    /\ UNCHANGED <<extraction_vars, form, storage, config, command, ads_selector, keep_old_ads, ads, remote, requests,
                   now, nextId, warned, runs, error, deleted, summary>>

\* delete_ads, lines 497-505: one round of the for loop, or its end
DeleteLoop ==
    /\ pc = "delete_loop"
    /\ IF idx > Len(ads)
       THEN /\ pc' = "done"
            /\ summary' = count
            /\ UNCHANGED <<idx, count, ads, remote, requests, error, deleted>>
       ELSE \E csrf \in CsrfStates :
            LET r == delete_ad(ads[idx].ad_cfg, config.delete_old_ads_by_title, published_ads,
                               remote, csrf)
            IN  /\ count' = count + 1
                /\ requests' = requests \o r.sent
                /\ remote' = r.listings
                /\ ads' = [ads EXCEPT ![idx].ad_cfg = r.ad_cfg]
                /\ error' = r.error
                /\ pc' = IF r.error # "" THEN "aborted" ELSE "delete_loop"
                /\ idx' = IF r.error # "" THEN idx ELSE idx + 1
                /\ deleted' = IF r.error # "" THEN deleted ELSE deleted \cup {ads[idx].ad_file}
                /\ UNCHANGED summary
    /\ UNCHANGED <<extraction_vars, form, storage, config, command, ads_selector, keep_old_ads, published_ads,
                   now, nextId, warned, runs>>

\* run, lines 124-125, and the end of the process: the browser session is
\* closed and what the process held in memory is gone
Exit ==
    /\ pc \in {"done", "aborted"}
    /\ pc' = "idle"
    /\ command' = "help"
    /\ ads_selector' = Str_due
    /\ keep_old_ads' = FALSE
    /\ ads' = <<>>
    /\ idx' = 0
    /\ count' = 0
    /\ published_ads' = <<>>
    /\ requests' = <<>>
    /\ warned' = FALSE
    /\ error' = ""
    /\ summary' = None
    /\ UNCHANGED <<extraction_vars, form, storage, config, remote, now, nextId, runs, deleted>>

----------------------------------------------------------------------------
(* AdExtractor: the shipping information of an ad page *)

\* _extract_shipping_info_from_ad_page, lines 425-435: the gateway's option id
\* -> the option name of the ad files
shipping_option_mapping ==
    [i \in {"DHL_001", "DHL_002", "DHL_003", "DHL_004", "DHL_005", "HERMES_001",
            "HERMES_002", "HERMES_003", "HERMES_004"} |->
        CASE i = "DHL_001" -> "DHL_2"
          [] i = "DHL_002" -> "DHL_5"
          [] i = "DHL_003" -> "DHL_10"
          [] i = "DHL_004" -> "DHL_31,5"
          [] i = "DHL_005" -> "DHL_20"
          [] i = "HERMES_001" -> "Hermes_Päckchen"
          [] i = "HERMES_002" -> "Hermes_S"
          [] i = "HERMES_003" -> "Hermes_M"
          [] i = "HERMES_004" -> "Hermes_L"]

\* misc.parse_decimal(...) * 100, rounded: the cents of a price text
price_in_cent(text) ==
    CASE text = "5,49" -> 549
      [] text = "4,89" -> 489
      [] text = "6,99" -> 699
      [] OTHER -> 0

\* what the extractor holds before the page is read
NotExtracted ==
    [done |-> FALSE, shipping_type |-> "", shipping_costs |-> None,
     shipping_options_given |-> FALSE, shipping_options |-> <<>>]

\* a result of _extract_shipping_info_from_ad_page; a shipping_options of
\* None has shipping_options_given FALSE
ShippingInfo(ship_type, ship_costs, given, shipping_options) ==
    [done |-> TRUE, shipping_type |-> ship_type, shipping_costs |-> ship_costs,
     shipping_options_given |-> given, shipping_options |-> shipping_options]

\* [x for x in s if P(x)] for the positions of the gateway's options
RECURSIVE SelectOptions(_, _, _, _)
SelectOptions(i, options, matching_size, cfg) ==
    IF i > Len(options) THEN <<>>
    ELSE LET opt == options[i]
             rest == SelectOptions(i + 1, options, matching_size, cfg)
         IN  IF /\ opt.packageSize = matching_size
                /\ opt.id \in DOMAIN shipping_option_mapping
                /\ shipping_option_mapping[opt.id] \notin cfg.excluded_shipping_options
             THEN <<shipping_option_mapping[opt.id]>> \o rest
             ELSE rest

\* the positions of the options with the given price
MatchingPositions(options, cents) ==
    {k \in 1..Len(options) : options[k].priceInEuroCent = cents}

\* _extract_shipping_info_from_ad_page, lines 399-472.  shipping_text is the
\* text of the shipping box as its blank-separated words, <<>> when the box is
\* not found in time (TimeoutError)
extract_shipping_info(shipping_text, options, cfg) ==
    IF shipping_text = <<>> THEN ShippingInfo("NOT_APPLICABLE", None, FALSE, <<>>)
    ELSE IF shipping_text = <<"Nur", "Abholung">> THEN ShippingInfo("PICKUP", None, FALSE, <<>>)
    ELSE IF shipping_text = <<"Versand", "möglich">> THEN ShippingInfo("SHIPPING", None, FALSE, <<>>)
    ELSE IF ~InSeq("€", shipping_text) THEN ShippingInfo("NOT_APPLICABLE", None, FALSE, <<>>)
    ELSE LET cents == price_in_cent(shipping_text[Len(shipping_text) - 1])
             matching == MatchingPositions(options, cents)
         IN  IF matching = {} THEN ShippingInfo("NOT_APPLICABLE", cents, FALSE, <<>>)
             ELSE LET first == options[CHOOSE k \in matching : \A j \in matching : k <= j] IN
                  IF cfg.include_all_matching_shipping_options
                  THEN ShippingInfo("SHIPPING", cents, TRUE,
                                    SelectOptions(1, options, first.packageSize, cfg))
                  ELSE IF \/ first.id \notin DOMAIN shipping_option_mapping
                          \/ shipping_option_mapping[first.id] \in cfg.excluded_shipping_options
                  THEN ShippingInfo("NOT_APPLICABLE", cents, FALSE, <<>>)
                  ELSE ShippingInfo("SHIPPING", cents, TRUE, <<shipping_option_mapping[first.id]>>)

\* no ad page is open
NoPage ==
    [open |-> FALSE, title |-> "", description |-> <<>>, shipping_text |-> <<>>, id |-> None,
     creation_day |-> 0]

\* download_ad, line 317: the shipping information is read from the open page
ExtractShippingInfo ==
    /\ ~extracted.done
    /\ page.open
    /\ extracted' = extract_shipping_info(page.shipping_text, gateway, download)
    /\ UNCHANGED <<orchestration_vars, pc, page, gateway, download, info, overview, multi_page,
                   current_page, refs, log>>

----------------------------------------------------------------------------
(* AdExtractor: the record of an ad page *)

\* str.startswith and str.endswith
StartsWith(s, p) == Len(p) <= Len(s) /\ SubSeq(s, 1, Len(p)) = p
EndsWith(s, p) == Len(p) <= Len(s) /\ SubSeq(s, Len(s) - Len(p) + 1, Len(s)) = p

\* a variant of SliceToMinus for which s[:-0] is s
SliceToMinus_keeps_all_at_zero(s, n) == SubSeq(s, 1, Len(s) - n)

\* s[:-n] of Python: -0 is 0, so that s[:-0] is the empty string
SliceToMinus(s, n) == IF n = 0 THEN <<>> ELSE SubSeq(s, 1, Len(s) - n)

\* _extract_ad_page_info, lines 295-309: the description stored for the text
\* of the page's description element
extract_description(text, prefix, suffix) ==
    LET raw_description == Strip(text)
        without_prefix ==
            IF prefix # <<>> /\ StartsWith(raw_description, Strip(prefix))
            THEN SubSeq(raw_description, Len(Strip(prefix)) + 1, Len(raw_description))
            ELSE raw_description
        without_suffix ==
            IF suffix # <<>> /\ EndsWith(without_prefix, Strip(suffix))
            THEN SliceToMinus(without_prefix, Len(Strip(suffix)))
            ELSE without_prefix
    IN  Strip(without_suffix)

\* the fields of an ad record that do not enter its content hash
HashExcluded == {"done", "id", "created_on", "updated_on", "content_hash"}

\* a variant of update_content_hash that leaves the id in the hashed fields
update_content_hash_with_id(ad) ==
    [f \in (DOMAIN ad \ HashExcluded) \cup {"id"} |-> ad[f]]

\* Ad.update_content_hash: the hash of the record's fields without id,
\* created_on, updated_on and content_hash; the hash is written as the fields
\* it is computed from, so that different fields give different hashes
update_content_hash(ad) ==
    [f \in DOMAIN ad \ HashExcluded |-> ad[f]]

\* what the extractor holds before _extract_ad_page_info has run
NoInfo ==
    [done |-> FALSE, active |-> 1, title |-> "", description |-> <<>>,
     shipping_type |-> "", shipping_costs |-> None, shipping_options_given |-> FALSE,
     shipping_options |-> <<>>, id |-> None, created_on |-> NoStamp, updated_on |-> NoStamp,
     content_hash |-> None]

\* _extract_ad_page_info, lines 273-338, without the content hash
AdPageInfo(ad_page, shipping, cfg) ==
    [done |-> TRUE, active |-> 1, title |-> ad_page.title,
     description |-> extract_description(ad_page.description, cfg.descr_prefix, cfg.descr_suffix),
     shipping_type |-> shipping.shipping_type, shipping_costs |-> shipping.shipping_costs,
     shipping_options_given |-> shipping.shipping_options_given,
     shipping_options |-> shipping.shipping_options,
     id |-> ad_page.id,
     created_on |-> [day |-> ad_page.creation_day, frac |-> 0],
     updated_on |-> NoStamp,
     content_hash |-> None]

\* _extract_ad_page_info, lines 266-342: the record of the open ad page
ExtractAdPageInfo ==
    /\ ~info.done
    /\ page.open
    /\ extracted' = extract_shipping_info(page.shipping_text, gateway, download)
    /\ info' = LET ad_cfg == AdPageInfo(page, extracted', config)
               IN  [ad_cfg EXCEPT !.content_hash = update_content_hash(ad_cfg)]
    /\ UNCHANGED <<orchestration_vars, pc, page, gateway, download, overview, multi_page,
                   current_page, refs, log>>

----------------------------------------------------------------------------
(* AdExtractor: the references of the own ads *)

\* an item of the list without the link to its ad
NoLink == <<>>

\* the "Nächste" button of page k is enabled: a page follows
NextEnabled(k) == k < Len(overview)

\* a variant of page_refs that takes the items from the last to the first
RECURSIVE page_refs_reversed(_)
page_refs_reversed(list_items) ==
    IF list_items = <<>> THEN [ok |-> TRUE, refs |-> <<>>]
    ELSE LET rest == page_refs_reversed(Tail(list_items)) IN
         IF Head(list_items) = NoLink \/ ~rest.ok THEN [ok |-> FALSE, refs |-> <<>>]
         ELSE [ok |-> TRUE, refs |-> rest.refs \o <<Head(list_items)>>]

\* extract_own_ads_urls, lines 187-194: the href of each item in the order of
\* the list; an item without the link raises and the page gives no reference
RECURSIVE page_refs(_)
page_refs(list_items) ==
    IF list_items = <<>> THEN [ok |-> TRUE, refs |-> <<>>]
    ELSE LET rest == page_refs(Tail(list_items)) IN
         IF Head(list_items) = NoLink \/ ~rest.ok THEN [ok |-> FALSE, refs |-> <<>>]
         ELSE [ok |-> TRUE, refs |-> <<Head(list_items)>> \o rest.refs]

\* extract_own_ads_urls, lines 231-234: the warning for an empty result
Returned(messages, result) ==
    IF result = <<>> THEN Append(messages, "no_urls") ELSE messages

\* extract_own_ads_urls, lines 135-170: the management page is opened, the
\* list container is looked for and the pagination is inspected
OwnAdsOpen ==
    /\ pc = "own_ads_urls"
    /\ \E container_found \in BOOLEAN, pagination \in {"found", "timeout", "error"} :
        IF ~container_found
        THEN /\ refs' = <<>>
             /\ log' = <<"no_list">>
             /\ pc' = "own_ads_returned"
             /\ UNCHANGED <<multi_page, current_page>>
        ELSE /\ multi_page' = (pagination = "found" /\ NextEnabled(1))
             /\ log' = <<CASE pagination = "timeout" -> "no_pagination"
                           [] pagination = "error" -> "pagination_error"
                           [] NextEnabled(1) -> "multiple_pages"
                           [] OTHER -> "single_page">>
             /\ refs' = <<>>
             /\ current_page' = 1
             /\ pc' = "own_ads_page"
    /\ UNCHANGED <<orchestration_vars, page, gateway, download, extracted, info, overview>>

\* extract_own_ads_urls, lines 172-229: one round of the while loop
OwnAdsPage ==
    /\ pc = "own_ads_page"
    /\ \E container_found \in BOOLEAN, pagination \in {"found", "timeout", "error"} :
        IF ~container_found
        THEN /\ log' = Returned(Append(log, "no_items"), refs)
             /\ pc' = "own_ads_returned"
             /\ UNCHANGED <<refs, current_page>>
        ELSE LET list_items == overview[current_page]
                 extraction == page_refs(list_items)
                 extended == IF extraction.ok THEN refs \o extraction.refs ELSE refs
                 logged == IF extraction.ok THEN log ELSE Append(log, "refs_error")
             IN  /\ refs' = extended
                 /\ IF ~multi_page
                    THEN /\ log' = Returned(Append(logged, "one_iteration"), extended)
                         /\ pc' = "own_ads_returned"
                         /\ UNCHANGED current_page
                    ELSE IF pagination # "found"
                    THEN /\ log' = Returned(Append(logged, IF pagination = "timeout"
                                                            THEN "no_pagination_after"
                                                            ELSE "navigation_error"), extended)
                         /\ pc' = "own_ads_returned"
                         /\ UNCHANGED current_page
                    ELSE IF NextEnabled(current_page)
                    THEN /\ current_page' = current_page + 1
                         /\ log' = logged
                         /\ pc' = "own_ads_page"
                    ELSE /\ log' = Returned(Append(logged, "last_page"), extended)
                         /\ pc' = "own_ads_returned"
                         /\ UNCHANGED current_page
    /\ UNCHANGED <<orchestration_vars, page, gateway, download, extracted, info, overview,
                   multi_page>>

\* extract_own_ads_urls is not running
NoOwnAds ==
    /\ overview = <<>>
    /\ multi_page = FALSE
    /\ current_page = 0
    /\ refs = <<>>
    /\ log = <<>>

\* the extractor is not in use
NoExtraction ==
    /\ page = NoPage
    /\ gateway = <<>>
    /\ download = [include_all_matching_shipping_options |-> FALSE,
                   excluded_shipping_options |-> {}]
    /\ extracted = NotExtracted
    /\ info = NoInfo
    /\ NoOwnAds

----------------------------------------------------------------------------
(* The orchestration specification: whole runs of publish and delete *)

\* the ad files of the orchestration runs: file f has no id or id f; the first
\* file may hold an id without timestamps (an id entered by hand), the files
\* after it may share its title
MainDocs(f) ==
    {[BaseDoc EXCEPT !.id = d.id, !.created_on = d.created_on, !.updated_on = d.updated_on,
                     !.title = t]
        : d \in {[id |-> None, created_on |-> NoStamp, updated_on |-> NoStamp],
                 [id |-> f, created_on |-> isoformat(0), updated_on |-> isoformat(0)]}
                \cup (IF f = 1 THEN {[id |-> f, created_on |-> NoStamp, updated_on |-> NoStamp]}
                      ELSE {}),
          t \in IF f = 1 THEN {"Title of ad A"} ELSE {"Title of ad A", "Title of ad B"}}

\* the listings the account may hold when the first run starts
Listing(id, title, state) == [id |-> id, title |-> title, state |-> state]
RemoteInits ==
    {{},
     {Listing(1, "Title of ad A", "active")},
     {Listing(1, "Title of ad A", "paused"), Listing(2, "Title of ad B", "active")},
     {Listing(1, "Title of ad A", "active"), Listing(2, "Title of ad B", "active"),
      Listing(FirstNewId - 1, "Title of ad A", "active")}}

MainCommands == {"publish", "delete"}
MainArgs == {Str_all, Str_new, <<"1">>}

Init ==
    /\ storage \in [AdFiles -> UNION {MainDocs(f) : f \in AdFiles}]
    /\ \A f \in AdFiles : storage[f] \in MainDocs(f)
    /\ config \in Configs
    /\ remote \in RemoteInits
    /\ command = "help"
    /\ ads_selector = Str_due
    /\ keep_old_ads = FALSE
    /\ ads = <<>>
    /\ pc = "idle"
    /\ idx = 0
    /\ count = 0
    /\ published_ads = <<>>
    /\ requests = <<>>
    /\ now = 0
    /\ nextId = FirstNewId
    /\ warned = FALSE
    /\ runs = 0
    /\ error = ""
    /\ summary = None
    /\ NoExtraction
    /\ form = NoForm
    /\ deleted = {}

Run == RunWith(MainCommands, MainArgs, BOOLEAN, MaxRuns)

Next ==
    \/ Run
    \/ PublishAdsFetch
    \/ PublishLoop
    \/ AssertFreeAdLimit
    \/ DeleteBeforePublish
    \/ FillAndSubmit
    \/ ConfirmAndPersist
    \/ AfterPublish
    \/ DeleteAdsFetch
    \/ DeleteLoop
    \/ Exit

Spec == Init /\ [][Next]_vars

----------------------------------------------------------------------------
(* The specification of repeated runs: a run, the end of its process, and
   the next run on what the first one left in the ad files and on the site *)

InitRerun ==
    /\ Init
    /\ config.delete_old_ads = "BEFORE_PUBLISH"

Rerun == RunWith(MainCommands, MainArgs, BOOLEAN, MaxReruns)

NextRerun ==
    \/ Rerun
    \/ PublishAdsFetch
    \/ PublishLoop
    \/ AssertFreeAdLimit
    \/ DeleteBeforePublish
    \/ FillAndSubmit
    \/ ConfirmAndPersist
    \/ AfterPublish
    \/ DeleteAdsFetch
    \/ DeleteLoop
    \/ Exit

SpecRerun == InitRerun /\ [][NextRerun]_vars

----------------------------------------------------------------------------
(* The selection specification: load_ads on ad files of every age *)

\* the tick of the run of the selection specification: day 10
DueNow == 10 * TicksPerDay

\* timestamps 10, 7, 6.5 and 3 days before DueNow
DueStamps == {isoformat(0), isoformat(3 * TicksPerDay), isoformat(3 * TicksPerDay + 1),
              isoformat(7 * TicksPerDay)}

\* the first ad file takes every combination of id, activity and timestamps,
\* the files after it a few
DueDocs(f) ==
    IF f = 1
    THEN {[BaseDoc EXCEPT !.id = i, !.active = a, !.created_on = c, !.updated_on = u]
            : i \in {None, 1}, a \in {Missing, 0},
              c \in {NoStamp, isoformat(0), isoformat(7 * TicksPerDay)},
              u \in {NoStamp} \cup DueStamps}
    ELSE {[BaseDoc EXCEPT !.id = i, !.updated_on = u, !.republication_interval = r]
            : i \in {None, f}, u \in {NoStamp, isoformat(7 * TicksPerDay)}, r \in {Missing, 2}}

DueArgs == {Str_due, Str_new, Str_all, <<"1">>, <<"2", ",", "1">>}

InitDue ==
    /\ storage \in [AdFiles -> UNION {DueDocs(f) : f \in AdFiles}]
    /\ \A f \in AdFiles : storage[f] \in DueDocs(f)
    /\ config \in {c \in Configs : c.delete_old_ads = "NEVER" /\ ~c.delete_old_ads_by_title}
    /\ remote = {}
    /\ command = "help"
    /\ ads_selector = Str_due
    /\ keep_old_ads = FALSE
    /\ ads = <<>>
    /\ pc = "idle"
    /\ idx = 0
    /\ count = 0
    /\ published_ads = <<>>
    /\ requests = <<>>
    /\ now = DueNow - RunInterval
    /\ nextId = FirstNewId
    /\ warned = FALSE
    /\ runs = 0
    /\ error = ""
    /\ summary = None
    /\ NoExtraction
    /\ form = NoForm
    /\ deleted = {}

RunDue == RunWith({"publish"}, DueArgs, {FALSE}, MaxRuns)

SpecDue == InitDue /\ [][RunDue]_vars

----------------------------------------------------------------------------
(* The validation specification: load_ads on ad files of every price *)

PriceDocs(f) ==
    IF f = 1
    THEN {[BaseDoc EXCEPT !.price_type = pt, !.price = p]
            : pt \in {"", "FIXED", "GIVE_AWAY", "NOT_APPLICABLE"}, p \in {Missing, None, 0, 5}}
    ELSE {[BaseDoc EXCEPT !.price_type = pt, !.price = p]
            : pt \in {"FIXED", "GIVE_AWAY"}, p \in {None, 0, 5}}

InitPrice ==
    /\ storage \in [AdFiles -> UNION {PriceDocs(f) : f \in AdFiles}]
    /\ \A f \in AdFiles : storage[f] \in PriceDocs(f)
    /\ config \in {c \in Configs : c.delete_old_ads = "NEVER" /\ ~c.delete_old_ads_by_title}
    /\ remote = {}
    /\ command = "help"
    /\ ads_selector = Str_due
    /\ keep_old_ads = FALSE
    /\ ads = <<>>
    /\ pc = "idle"
    /\ idx = 0
    /\ count = 0
    /\ published_ads = <<>>
    /\ requests = <<>>
    /\ now = 0
    /\ nextId = FirstNewId
    /\ warned = FALSE
    /\ runs = 0
    /\ error = ""
    /\ summary = None
    /\ NoExtraction
    /\ form = NoForm
    /\ deleted = {}

RunPrice == RunWith({"publish", "delete", "verify"}, {Str_all}, {FALSE}, MaxRuns)

SpecPrice == InitPrice /\ [][RunPrice]_vars

----------------------------------------------------------------------------
(* The shipping specification: publish runs over ads of every shipping setup *)

\* the option names of the ad files: three of the table and an unknown one
OptionNames == {"DHL_5", "Hermes_M", "DHL_10", "DHL_99"}

ShippingDocs(f) ==
    IF f = 1
    THEN {[BaseDoc EXCEPT !.type = ty, !.shipping_type = st, !.shipping_options = so]
            : ty \in {"OFFER", "WANTED"}, st \in {"SHIPPING", "PICKUP", "NOT_APPLICABLE"},
              so \in {<<>>} \cup {<<a>> : a \in OptionNames}
                     \cup {<<a, b>> : a \in OptionNames, b \in OptionNames}}
    ELSE {BaseDoc, [BaseDoc EXCEPT !.shipping_options = <<"DHL_10", "Hermes_L">>]}

InitShipping ==
    /\ \E first \in ShippingDocs(1), others \in [AdFiles \ {1} -> ShippingDocs(2)] :
          storage = [f \in AdFiles |-> IF f = 1 THEN first ELSE others[f]]
    /\ config \in {c \in Configs : c.delete_old_ads = "NEVER" /\ ~c.delete_old_ads_by_title}
    /\ remote = {}
    /\ command = "help"
    /\ ads_selector = Str_due
    /\ keep_old_ads = FALSE
    /\ ads = <<>>
    /\ pc = "idle"
    /\ idx = 0
    /\ count = 0
    /\ published_ads = <<>>
    /\ requests = <<>>
    /\ now = 0
    /\ nextId = FirstNewId
    /\ warned = FALSE
    /\ runs = 0
    /\ error = ""
    /\ summary = None
    /\ NoExtraction
    /\ form = NoForm
    /\ deleted = {}

RunShipping == RunWith({"publish"}, {Str_all}, {FALSE}, MaxRuns)

NextShipping ==
    \/ RunShipping
    \/ PublishAdsFetch
    \/ PublishLoop
    \/ AssertFreeAdLimit
    \/ FillAndSubmit
    \/ ConfirmAndPersist
    \/ AfterPublish

SpecShipping == InitShipping /\ [][NextShipping]_vars

----------------------------------------------------------------------------
(* The category specification: load_ads on ad files of every category *)

CategoryPaths ==
    {<<>>, <<"161/172">>, <<"161/172", "sonstige">>, <<"161/172 ", "sonstige">>, <<"161/172 ">>,
     <<"Elektronik", "Audio">>, <<"Elektronik", "Audio", "sonstige">>, <<"Elektronik">>,
     <<"Elektronik", "Video">>, <<"161/172", "sonstige", "x">>}

CategoryDocs(f) ==
    {[BaseDoc EXCEPT !.category = c]
        : c \in IF f = 1 THEN CategoryPaths
                ELSE {<<>>, <<"161/172", "sonstige">>, <<"Elektronik", "Audio">>, <<"Elektronik">>}}

InitCategory ==
    /\ storage \in [AdFiles -> UNION {CategoryDocs(f) : f \in AdFiles}]
    /\ \A f \in AdFiles : storage[f] \in CategoryDocs(f)
    /\ config \in {c \in Configs : c.delete_old_ads = "NEVER" /\ ~c.delete_old_ads_by_title}
    /\ remote = {}
    /\ command = "help"
    /\ ads_selector = Str_due
    /\ keep_old_ads = FALSE
    /\ ads = <<>>
    /\ pc = "idle"
    /\ idx = 0
    /\ count = 0
    /\ published_ads = <<>>
    /\ requests = <<>>
    /\ now = 0
    /\ nextId = FirstNewId
    /\ warned = FALSE
    /\ runs = 0
    /\ error = ""
    /\ summary = None
    /\ NoExtraction
    /\ form = NoForm
    /\ deleted = {}

RunCategory == RunWith({"publish", "delete", "verify"}, {Str_all, Str_new}, {FALSE}, MaxRuns)

SpecCategory == InitCategory /\ [][RunCategory]_vars

----------------------------------------------------------------------------
(* The extraction specification: the shipping box of every kind of ad page *)

ShippingTexts ==
    {<<>>, <<"Nur", "Abholung">>, <<"Versand", "möglich">>, <<"Keine", "Angabe">>,
     <<"+", "Versand", "ab", "5,49", "€">>, <<"+", "Versand", "ab", "4,89", "€">>,
     <<"+", "Versand", "ab", "6,99", "€">>}

GatewayOption(id, cents, size) == [id |-> id, priceInEuroCent |-> cents, packageSize |-> size]

\* answers of the gateway: the usual catalog, one with an option that is not
\* in the mapping, one where two carriers ask the same price and one of the
\* large packages
GatewayAnswers ==
    {<<>>,
     <<GatewayOption("DHL_001", 489, "SMALL"), GatewayOption("DHL_002", 549, "MEDIUM"),
       GatewayOption("HERMES_003", 599, "MEDIUM")>>,
     <<GatewayOption("DPD_001", 489, "SMALL"), GatewayOption("DHL_002", 549, "MEDIUM"),
       GatewayOption("HERMES_003", 549, "MEDIUM")>>,
     <<GatewayOption("HERMES_003", 549, "MEDIUM"), GatewayOption("DHL_002", 549, "MEDIUM"),
       GatewayOption("DHL_001", 489, "SMALL")>>,
     <<GatewayOption("DPD_001", 549, "MEDIUM"), GatewayOption("DHL_002", 549, "MEDIUM")>>,
     <<GatewayOption("DHL_003", 649, "LARGE"), GatewayOption("DHL_005", 699, "LARGE")>>}

DownloadConfigs ==
    [include_all_matching_shipping_options : BOOLEAN,
     excluded_shipping_options : {{}, {"DHL_5"}, {"Hermes_M"}, {"DHL_2", "DHL_5"}}]

InitExtract ==
    /\ storage \in [AdFiles -> {BaseDoc}]
    /\ config \in {c \in Configs : c.delete_old_ads = "NEVER" /\ ~c.delete_old_ads_by_title}
    /\ remote = {}
    /\ command = "download"
    /\ ads_selector = Str_all
    /\ keep_old_ads = FALSE
    /\ ads = <<>>
    /\ pc = "download_ads"
    /\ idx = 0
    /\ count = 0
    /\ published_ads = <<>>
    /\ requests = <<>>
    /\ now = 0
    /\ nextId = FirstNewId
    /\ warned = FALSE
    /\ runs = 1
    /\ error = ""
    /\ summary = None
    /\ deleted = {}
    /\ page \in {[NoPage EXCEPT !.open = TRUE, !.shipping_text = t] : t \in ShippingTexts}
    /\ gateway \in GatewayAnswers
    /\ download \in DownloadConfigs
    /\ extracted = NotExtracted
    /\ info = NoInfo
    /\ NoOwnAds
    /\ form = NoForm

SpecExtract == InitExtract /\ [][ExtractShippingInfo]_vars

----------------------------------------------------------------------------
(* The arguments specification: run with every --ads argument *)

ArgsDocs(f) == {[BaseDoc EXCEPT !.id = i] : i \in IF f = 1 THEN {1} ELSE {None, f}}

InitArgs ==
    /\ storage \in [AdFiles -> UNION {ArgsDocs(f) : f \in AdFiles}]
    /\ \A f \in AdFiles : storage[f] \in ArgsDocs(f)
    /\ config \in {c \in Configs : c.delete_old_ads = "NEVER" /\ ~c.delete_old_ads_by_title}
    /\ remote = {}
    /\ command = "help"
    /\ ads_selector = Str_due
    /\ keep_old_ads = FALSE
    /\ ads = <<>>
    /\ pc = "idle"
    /\ idx = 0
    /\ count = 0
    /\ published_ads = <<>>
    /\ requests = <<>>
    /\ now = 0
    /\ nextId = FirstNewId
    /\ warned = FALSE
    /\ runs = 0
    /\ error = ""
    /\ summary = None
    /\ NoExtraction
    /\ form = NoForm
    /\ deleted = {}

RunArgs == RunWith({"publish", "download"}, AllArgs, {FALSE}, MaxRuns)

SpecArgs == InitArgs /\ [][RunArgs]_vars

----------------------------------------------------------------------------
(* Properties of the selection *)

\* the effective record of ad file f
Eff(f) == apply_defaults(storage[f], config.ad_defaults)
\* the ad files of the list load_ads returned
LoadedFiles == {ads[i].ad_file : i \in 1..Len(ads)}
\* load_ads has returned its list and the orchestration has not begun
JustLoaded == pc \in {"publish_ads", "delete_ads", "done"} /\ idx = 0 /\ runs > 0 /\ error = ""
\* whole days between a timestamp and now
AgeDays(stamp) == (now - (stamp.day * TicksPerDay + stamp.frac)) \div TicksPerDay
\* updated_on when the record holds one, created_on otherwise
UpdatedElseCreated(r) == IF r.updated_on # NoStamp THEN r.updated_on ELSE r.created_on
\* the later of updated_on and created_on, NoStamp when the record holds neither
MostRecent(r) ==
    IF r.updated_on = NoStamp THEN r.created_on
    ELSE IF r.created_on = NoStamp THEN r.updated_on
    ELSE IF AgeDays(r.created_on) < AgeDays(r.updated_on) THEN r.created_on
    ELSE r.updated_on
IsActive(r) == r.active = 1
HasId(r) == r.id # None /\ r.id # Missing

\* C1: under selector due, load_ads selects every active ad whose id is
\* absent, whatever its updated_on / created_on are.
C1_DueSelectsEveryNewAd ==
    (JustLoaded /\ ads_selector = Str_due) =>
        \A f \in AdFiles : (IsActive(Eff(f)) /\ ~HasId(Eff(f))) => f \in LoadedFiles

\* C2 as stated: with a literal set of ids as selector, load_ads selects an ad
\* iff its id is in the set, inactive ads included.
C2_IdsSelectAlsoInactive ==
    (JustLoaded /\ ads_selector \in {<<"1">>, <<"2", ",", "1">>}) =>
        \A f \in AdFiles :
            f \in LoadedFiles <=> InSeq(Eff(f).id, ParseIds(ads_selector))

\* C2 as amended: with a literal set of ids as selector, load_ads selects an ad
\* iff the ad is active and its id is in the set; the ids override the new and
\* due checks, not the exclusion of inactive ads.
C2_IdsSelectActiveMembers ==
    (JustLoaded /\ ads_selector \in {<<"1">>, <<"2", ",", "1">>}) =>
        \A f \in AdFiles :
            f \in LoadedFiles <=> (IsActive(Eff(f)) /\ InSeq(Eff(f).id, ParseIds(ads_selector)))

\* C2: ids 2,1 were given; an inactive ad with id 1 was left out and an ad with
\* id 2 published 3 days ago was selected
C2_Witness ==
    /\ JustLoaded /\ ads_selector = <<"2", ",", "1">>
    /\ \E f \in AdFiles : ~IsActive(Eff(f)) /\ Eff(f).id = 1 /\ f \notin LoadedFiles
    /\ \E g \in AdFiles : /\ g \in LoadedFiles /\ Eff(g).id = 2
                          /\ Eff(g).updated_on # NoStamp /\ AgeDays(Eff(g).updated_on) = 3

\* C3: under selector due, an active ad with an id and a last-publication
\* timestamp is skipped iff its age in whole days is at most
\* republication_interval (exactly interval days old: not due).
C3_DueSkipsUpToInterval ==
    (JustLoaded /\ ads_selector = Str_due) =>
        \A f \in AdFiles :
            (IsActive(Eff(f)) /\ HasId(Eff(f)) /\ UpdatedElseCreated(Eff(f)) # NoStamp) =>
                /\ AgeDays(UpdatedElseCreated(Eff(f))) <= Eff(f).republication_interval
                        => f \notin LoadedFiles
                /\ AgeDays(UpdatedElseCreated(Eff(f))) > Eff(f).republication_interval
                        => f \in LoadedFiles

\* C3: with interval 7, an ad exactly 7 days old was skipped and, in another
\* file, an ad 3 days old was skipped too
C3_Witness ==
    /\ JustLoaded /\ ads_selector = Str_due
    /\ \E f \in AdFiles :
        /\ IsActive(Eff(f)) /\ HasId(Eff(f)) /\ Eff(f).republication_interval = 7
        /\ Eff(f).updated_on # NoStamp /\ AgeDays(Eff(f).updated_on) = 7
        /\ f \notin LoadedFiles
    /\ \E g \in AdFiles :
        /\ IsActive(Eff(g)) /\ HasId(Eff(g)) /\ Eff(g).republication_interval = 7
        /\ Eff(g).updated_on # NoStamp /\ AgeDays(Eff(g).updated_on) = 3
        /\ g \notin LoadedFiles

\* C4 as stated: under selector due the age compared with
\* republication_interval is that of the most recent of updated_on and
\* created_on, whichever of the two is later.
C4_AgeOfMostRecent ==
    (JustLoaded /\ ads_selector = Str_due) =>
        \A f \in AdFiles :
            (IsActive(Eff(f)) /\ HasId(Eff(f))) =>
                (f \notin LoadedFiles <=>
                    (/\ MostRecent(Eff(f)) # NoStamp
                     /\ AgeDays(MostRecent(Eff(f))) <= Eff(f).republication_interval))

\* C4 as amended: under selector due the age compared with
\* republication_interval is that of updated_on when the record holds one and
\* that of created_on otherwise (the most recent of the two unless created_on
\* is the later one); an ad with neither timestamp is always due.
C4_AgeOfUpdatedElseCreated ==
    (JustLoaded /\ ads_selector = Str_due) =>
        \A f \in AdFiles :
            IsActive(Eff(f)) =>
                (f \notin LoadedFiles <=>
                    (/\ UpdatedElseCreated(Eff(f)) # NoStamp
                     /\ AgeDays(UpdatedElseCreated(Eff(f))) <= Eff(f).republication_interval))

\* C4: an ad updated 10 days ago whose created_on is 3 days ago was selected
C4_Witness ==
    /\ JustLoaded /\ ads_selector = Str_due
    /\ \E f \in AdFiles :
        /\ IsActive(Eff(f)) /\ Eff(f).republication_interval = 7
        /\ Eff(f).updated_on # NoStamp /\ AgeDays(Eff(f).updated_on) = 10
        /\ Eff(f).created_on # NoStamp /\ AgeDays(Eff(f).created_on) = 3
        /\ f \in LoadedFiles

----------------------------------------------------------------------------
(* Properties of run's selector fallback and of the validation *)

\* a comma-separated list of integers: every part between the commas is a
\* non-empty run of digits
IsIdList(s) ==
    \A i \in 1..Len(Split(s)) :
        Split(s)[i] # <<>> /\ \A k \in 1..Len(Split(s)[i]) : Split(s)[i][k] \in Digits

\* C5: for publish every --ads value that is not all, due, new or a
\* comma-separated set of integer ids is replaced by due before the ads are
\* loaded, for download every value that is not all, new or such a set is
\* replaced by new: the selector the command works with is always one of these.
C5_UnknownSelectorReplaced ==
    (runs > 0 /\ pc # "idle") =>
        /\ command = "publish" =>
              (ads_selector \in {Str_all, Str_due, Str_new} \/ IsIdList(ads_selector))
        /\ command = "download" =>
              (ads_selector \in {Str_all, Str_new} \/ IsIdList(ads_selector))

\* a price that is not empty: any number, 0 included
PriceGiven(r) == r.price # None /\ r.price # Missing

\* C6: no ad that load_ads returns has price_type GIVE_AWAY with a non-empty
\* price (a price of 0 included) or price_type FIXED with an empty price.
C6_PriceRulesEnforced ==
    JustLoaded =>
        \A i \in 1..Len(ads) :
            /\ ~(ads[i].ad_cfg.price_type = "GIVE_AWAY" /\ PriceGiven(ads[i].ad_cfg))
            /\ ~(ads[i].ad_cfg.price_type = "FIXED" /\ ~PriceGiven(ads[i].ad_cfg))

----------------------------------------------------------------------------
(* Properties of publish_ad and delete_ad *)

\* the text of the current timestamp
NowText == [day |-> now \div TicksPerDay, frac |-> now % TicksPerDay]
\* the ad publish_ads or delete_ads is working on
CurrentAd == ads[idx]

\* C7 as stated: after a successful publish_ad the persisted original record
\* has the id of the confirmation URL, updated_on = now, and created_on = now
\* whenever created_on was absent before (whether or not the ad had an id or
\* its old listing was deleted); a present created_on is unchanged.
C7_CreatedOnSetWheneverAbsent ==
    pc = "published" =>
        LET stored == storage[CurrentAd.ad_file] IN
        /\ stored = CurrentAd.ad_cfg_orig
        /\ stored.id = nextId - 1
        /\ \E l \in remote : l.id = stored.id /\ l.title = CurrentAd.ad_cfg.title
        /\ stored.updated_on = NowText
        /\ stored.created_on = IF CurrentAd.ad_cfg.created_on = NoStamp THEN NowText
                               ELSE CurrentAd.ad_cfg.created_on

\* C7 as amended: after a successful publish_ad the persisted original record
\* has the id of the confirmation URL and updated_on = now; created_on is set
\* to that timestamp when it was absent before and the effective record holds
\* no id at that point, that is when the ad had no id or delete_ad cleared it
\* before the publish; an ad that keeps its id through the publish stays
\* without created_on; a present created_on is unchanged.
C7_CreatedOnSetWhenAbsentAndNoId ==
    [][(pc = "submitted" /\ pc' = "published") =>
        LET f == CurrentAd.ad_file
            before == storage[f]
            after == storage'[f] IN
        /\ after = ads'[idx].ad_cfg_orig
        /\ after.id = nextId
        /\ \E l \in remote' : l.id = after.id /\ l.title = CurrentAd.ad_cfg.title
        /\ after.updated_on = NowText
        /\ after.created_on =
              IF before.created_on = NoStamp /\ (~HasId(before) \/ DeletesBeforePublish)
              THEN NowText ELSE before.created_on]_vars

\* C7: an ad that had an id and no created_on was deleted by id before its
\* publish, and the publish gave it the new id and created_on = updated_on = now
C7_Witness ==
    /\ pc = "published"
    /\ DeletesBeforePublish /\ ~config.delete_old_ads_by_title
    /\ \E i \in 1..Len(requests) : requests[i].id = 1
    /\ storage[CurrentAd.ad_file].id = nextId - 1
    /\ CurrentAd.ad_cfg.created_on = NoStamp
    /\ storage[CurrentAd.ad_file].created_on = NowText
    /\ storage[CurrentAd.ad_file].updated_on = NowText

\* what the record holds besides id, created_on and updated_on
Authored(r) == [r EXCEPT !.id = None, !.created_on = NoStamp, !.updated_on = NoStamp]

\* C8: whatever is loaded, published or deleted, the only fields of a stored
\* document and of a loaded original record that change are id, created_on
\* and updated_on; nothing of the effective record reaches them.
C8_OnlyBookkeepingFieldsChange ==
    [][/\ \A f \in AdFiles : Authored(storage'[f]) = Authored(storage[f])
       /\ \A i \in 1..Len(ads') :
             Authored(ads'[i].ad_cfg_orig) = Authored(storage'[ads'[i].ad_file])]_vars

\* C8: an ad was published and saved whose effective record differs from the
\* original one in description, category, images and the defaulted fields
C8_Witness ==
    /\ pc = "published"
    /\ storage[CurrentAd.ad_file].id = nextId - 1
    /\ CurrentAd.ad_cfg.description # CurrentAd.ad_cfg_orig.description
    /\ CurrentAd.ad_cfg.category # CurrentAd.ad_cfg_orig.category
    /\ CurrentAd.ad_cfg.images # CurrentAd.ad_cfg_orig.images
    /\ CurrentAd.ad_cfg.active # CurrentAd.ad_cfg_orig.active
    /\ CurrentAd.ad_cfg.price_type # CurrentAd.ad_cfg_orig.price_type

\* C9: once the delete command has processed an ad, the next run with selector
\* new that loads the ad files selects that ad.
C9_DeletedAdIsNewAgain ==
    (JustLoaded /\ command = "publish" /\ ads_selector = Str_new) =>
        \A f \in deleted : IsActive(Eff(f)) => f \in LoadedFiles

\* a step in which delete_ad ran and returned
DeleteAdReturns ==
    \/ pc = "delete_loop" /\ idx <= Len(ads) /\ pc' = "delete_loop"
    \/ pc = "delete_before" /\ pc' = "fill_form"
    \/ pc = "published" /\ DeletesAfterPublish /\ pc' = "publish_loop"
\* that call of delete_ad had delete-by-title enabled
DeleteAdByTitle == config.delete_old_ads_by_title /\ pc \in {"delete_loop", "delete_before"}
\* the delete requests of the step
NewRequests == SubSeq(requests', Len(requests) + 1, Len(requests'))
\* the ids of the snapshot's listings with the ad's id or title
SnapshotMatches(ad_cfg) ==
    {published_ads[k].id : k \in {j \in 1..Len(published_ads) :
        published_ads[j].id = ad_cfg.id \/ published_ads[j].title = ad_cfg.title}}

----------------------------------------------------------------------------
(* Properties of the order of deleting and publishing *)

\* the listings delete_ad is to remove for the ad: the one with the ad's id
\* and, with delete-by-title, those of the snapshot with its id or title
PriorListingIds(ad_cfg) ==
    (IF HasId(ad_cfg) THEN {ad_cfg.id} ELSE {})
    \cup (IF config.delete_old_ads_by_title THEN SnapshotMatches(ad_cfg) ELSE {})

\* C11: with delete_old_ads BEFORE_PUBLISH and without --keep-old, the form of
\* an ad is entered only from its delete_ad, and at that point every prior
\* listing of the ad is gone from the site and each one that was removed has
\* its delete request answered; while the form is filled in and submitted no
\* delete request is sent; with --keep-old a publish run sends no delete
\* request at all.
C11_DeleteBeforeFormFilling ==
    [][/\ (/\ command = "publish" /\ pc' = "fill_form"
           /\ config.delete_old_ads = "BEFORE_PUBLISH" /\ ~keep_old_ads) =>
             /\ pc = "delete_before"
             /\ \A l \in remote' : l.id \notin PriorListingIds(CurrentAd.ad_cfg)
             /\ \A l \in remote \ remote' :
                   \E i \in 1..Len(NewRequests) :
                       NewRequests[i].id = l.id /\ NewRequests[i].status = 200
       /\ pc \in {"fill_form", "submitted"} => requests' = requests
       /\ (command' = "publish" /\ keep_old_ads') => requests' = <<>>]_vars

\* C11: the form of an ad with id 1 is about to be filled in after its listing
\* was deleted by a request that the site answered with 200
C11_Witness ==
    /\ command = "publish" /\ pc = "fill_form"
    /\ config.delete_old_ads = "BEFORE_PUBLISH" /\ ~keep_old_ads
    /\ storage[CurrentAd.ad_file].id = 1
    /\ \E i \in 1..Len(requests) : requests[i].id = 1 /\ requests[i].status = 200
    /\ \A l \in remote : l.id # 1

\* C12: with delete_old_ads AFTER_PUBLISH and without --keep-old, a delete
\* request of a publish run is sent only after the ad's publish was confirmed
\* and saved under its new id, it names the id the ad had before (never the
\* new listing, which stays on the site), and an ad that had an id gets that
\* request once its publish is through.
C12_DeleteAfterPersist ==
    [][(/\ command = "publish"
        /\ config.delete_old_ads = "AFTER_PUBLISH" /\ ~keep_old_ads) =>
          /\ Len(requests') > Len(requests) =>
                /\ pc = "published"
                /\ storage[CurrentAd.ad_file].id = nextId - 1
                /\ CurrentAd.ad_cfg_orig = storage[CurrentAd.ad_file]
                /\ Len(NewRequests) = 1
                /\ NewRequests[1].id = CurrentAd.ad_cfg.id
                /\ NewRequests[1].id # storage[CurrentAd.ad_file].id
                /\ \E l \in remote' : l.id = storage[CurrentAd.ad_file].id
          /\ (pc = "published" /\ pc' = "publish_loop" /\ HasId(CurrentAd.ad_cfg)) =>
                /\ Len(NewRequests) = 1
                /\ \A l \in remote' : l.id # CurrentAd.ad_cfg.id]_vars

\* C12: the first ad of the run had id 1, was published under a new id and
\* saved, and only then its old listing was deleted
C12_Witness ==
    /\ command = "publish" /\ pc = "publish_loop" /\ idx = 2
    /\ config.delete_old_ads = "AFTER_PUBLISH" /\ ~keep_old_ads
    /\ requests = <<[id |-> 1, csrf |-> "token", status |-> 200]>>
    /\ storage[ads[1].ad_file].id = FirstNewId
    /\ \E l \in remote : l.id = FirstNewId
    /\ \A l \in remote : l.id # 1

----------------------------------------------------------------------------
(* Properties of the failures of a publish run *)

\* C13: when the limit banner is found at the start of publish_ad the run is
\* aborted in that step, with the ad files, the site, the requests sent and
\* the loop position as they were; an aborted run takes no further step but the
\* end of its process, so neither this ad nor a later one is deleted, filled
\* in, submitted or saved, and the check is not made again.
C13_LimitBannerAbortsRun ==
    [][/\ (pc = "publish_ad" /\ error' = "AssertionError") =>
             /\ pc' = "aborted"
             /\ UNCHANGED <<storage, remote, requests, ads, idx, nextId, summary>>
       /\ pc = "aborted" =>
             /\ pc' = "idle"
             /\ UNCHANGED <<storage, remote, nextId>>]_vars

\* C13: no delete_ad is configured, so the AssertionError is the banner's: it
\* was found at the second ad of two, after the first was published, and the
\* second ad's file is as it was loaded
C13_Witness ==
    /\ command = "publish" /\ pc = "aborted" /\ error = "AssertionError"
    /\ config.delete_old_ads = "NEVER"
    /\ Len(ads) = 2 /\ idx = 2
    /\ storage[ads[1].ad_file].id = nextId - 1
    /\ storage[ads[2].ad_file] = ads[2].ad_cfg_orig
    /\ ads[2].ad_cfg_orig.id = None
    /\ requests = <<>> /\ summary = None

\* the i-th ad of the run has a listing in state paused in the snapshot
PausedInSnapshot(i) ==
    \E k \in 1..Len(published_ads) :
        published_ads[k].id = ads[i].ad_cfg.id /\ published_ads[k].state = "paused"

\* C14: publish_ads passes over an ad whose id has a paused listing in the
\* snapshot in one step that leaves the ad files, both records of the ad, the
\* site, the requests and the count as they are, and its next step for the ad
\* after it is the loop head again, so the ad is never deleted, filled in,
\* submitted or saved; the count the run ends with is the number of its ads
\* without a paused listing.
C14_ReservedAdSkipped ==
    [][/\ (pc = "publish_loop" /\ idx <= Len(ads) /\ PausedInSnapshot(idx)) =>
             /\ pc' = "publish_loop" /\ idx' = idx + 1
             /\ UNCHANGED <<storage, ads, remote, requests, count, nextId, error>>
       /\ (pc = "publish_loop" /\ pc' = "done") =>
             /\ count' = Cardinality({i \in 1..Len(ads) : ~PausedInSnapshot(i)})
             /\ summary' = count']_vars

\* C14: a run of two ads ended after it skipped the first, whose listing is
\* paused, and published the second
C14_Witness ==
    /\ command = "publish" /\ pc = "done"
    /\ Len(ads) = 2 /\ PausedInSnapshot(1) /\ count = 1
    /\ storage[ads[1].ad_file] = ads[1].ad_cfg_orig
    /\ ads[1].ad_cfg.id = 1 /\ storage[ads[1].ad_file].id = 1
    /\ storage[ads[2].ad_file].id = nextId - 1
    /\ \E l \in remote : l.id = 1 /\ l.state = "paused"

\* C15: in a publish run with an ad still to come, a timeout on a required
\* element of the form, or on the confirmation, fails the current ad only:
\* the run is not aborted and goes on with the next ad.
C15_TimeoutFailsOnlyThatAd ==
    [][(/\ command = "publish" /\ pc \in {"fill_form", "submitted"}
        /\ idx < Len(ads) /\ error' = "TimeoutError") =>
          (pc' = "publish_loop" /\ idx' = idx + 1)]_vars

\* C17: no delete_ad is configured in the run, so an AssertionError is the
\* limit banner's and any other failure is a timeout while an ad was
\* published; every publish run with ads that has ended and was not aborted
\* by the limit banner has logged the summary with its count.
C17_SummaryAlwaysEmitted ==
    (/\ command = "publish" /\ pc \in {"done", "aborted"} /\ ads # <<>>
     /\ config.delete_old_ads = "NEVER" /\ error # "AssertionError") =>
        (summary # None /\ summary = count)

----------------------------------------------------------------------------
(* Properties of the validation *)

\* C16: in a publish or delete run over ad files of which some have a
\* configuration error, load_ads raises nothing and returns exactly the
\* selected ads without such an error; in a verify run an ad file with a
\* configuration error aborts the load.
C16_ConfigErrorRemovesOnlyThatAd ==
    LET invalid == {f \in AdFiles : ~Valid(Eff(f), config)} IN
    /\ (runs > 0 /\ command \in {"publish", "delete"} /\ ads_selector = Str_all) =>
          (error = "" /\ LoadedFiles = AdFiles \ invalid)
    /\ (runs > 0 /\ command = "verify" /\ invalid # {}) =>
          (pc = "aborted" /\ error = "AssertionError")

----------------------------------------------------------------------------
(* Properties of the shipping options *)

\* every name is a key of the table and all names have the same package size
SameSizeTableKeys(options) ==
    /\ \A i \in 1..Len(options) : options[i] \in DOMAIN shipping_options_mapping
    /\ \A i, j \in 1..Len(options) :
          shipping_options_mapping[options[i]][1] = shipping_options_mapping[options[j]][1]

\* C18 as stated: an ad that names shipping options is submitted only if all
\* of them are keys of the table and have the same package size.
C18_MixedSizesNeverSubmitted ==
    pc \in {"submitted", "published"} =>
        SameSizeTableKeys(CurrentAd.ad_cfg.shipping_options)

\* C18 as amended: the table has 8 entries; for an ad that is not WANTED, not
\* PICKUP and names shipping options, the form is submitted only if all names
\* are keys of the table with the same package size, and it is submitted then
\* unless an element times out; otherwise publish_ad ends with KeyError or
\* ValueError (or the timeout) and the ad is not submitted.  DHL_5 with
\* Hermes_M is accepted with size Mittel, DHL_5 with DHL_10 raises ValueError.
\* The options of a WANTED or PICKUP ad are not looked at.
C18_ShippingOptionsChecked ==
    [][/\ Cardinality(DOMAIN shipping_options_mapping) = 8
       /\ set_shipping_options(<<"DHL_5", "Hermes_M">>) =
             [error |-> "", shipping_size |-> "Mittel",
              shipping_packages |-> {"Paket 5 kg", "M-Paket"}]
       /\ set_shipping_options(<<"DHL_5", "DHL_10">>).error = "ValueError"
       /\ pc = "fill_form" =>
             LET ad_cfg == CurrentAd.ad_cfg
                 accepted == SameSizeTableKeys(ad_cfg.shipping_options) IN
             IF UsesShippingOptions(ad_cfg)
             THEN /\ pc' = "submitted" => accepted
                  /\ (accepted /\ error' # "TimeoutError") => pc' = "submitted"
                  /\ ~accepted => (pc' = "aborted" /\ storage' = storage
                                   /\ error' \in {"KeyError", "ValueError", "TimeoutError"})
             ELSE error' \in {"", "TimeoutError"}]_vars

\* C18: the publish of an OFFER with shipping_type SHIPPING and the options
\* DHL_5 and DHL_10 ended with the ValueError of the size check
C18_Witness ==
    /\ command = "publish" /\ pc = "aborted" /\ error = "ValueError"
    /\ CurrentAd.ad_cfg.type = "OFFER" /\ CurrentAd.ad_cfg.shipping_type = "SHIPPING"
    /\ CurrentAd.ad_cfg.shipping_options = <<"DHL_5", "DHL_10">>
    /\ storage[CurrentAd.ad_file] = CurrentAd.ad_cfg_orig

----------------------------------------------------------------------------
(* Properties of the category resolution *)

\* C19: in the list load_ads returned, the category of an ad whose path has an
\* entry in the mapping is that entry's id, and no fallback warning is logged
\* for it; the category of an ad whose path of two or more segments has no
\* entry, while the path without its last segment has one, is the id of that
\* parent entry, and the fallback warning is logged for it.  161/172>sonstige
\* resolves to the id of 161/172.
C19_CategoryResolution ==
    /\ ResolveCategory(<<"161/172", "sonstige">>) = <<categories[<<"161/172">>]>>
    /\ JustLoaded =>
          \A i \in 1..Len(ads) :
              LET path == ads[i].ad_cfg_orig.category
                  parent == SubSeq(path, 1, Len(path) - 1) IN
              /\ path \in DOMAIN categories =>
                    /\ ads[i].ad_cfg.category = <<categories[path]>>
                    /\ ~CategoryFallbackWarning(path)
              /\ (path \notin DOMAIN categories /\ Len(path) > 1 /\ parent \in DOMAIN categories) =>
                    /\ ads[i].ad_cfg.category = <<categories[parent]>>
                    /\ CategoryFallbackWarning(path)

\* C19: load_ads returned two ads, the first with the path 161/172>sonstige
\* resolved to the id of 161/172, the second with the path Elektronik>Audio
\* resolved to its own entry's id
C19_Witness ==
    /\ JustLoaded /\ Len(ads) = 2
    /\ ads[1].ad_cfg_orig.category = <<"161/172", "sonstige">>
    /\ ads[1].ad_cfg.category = <<"id-172">>
    /\ ads[2].ad_cfg_orig.category = <<"Elektronik", "Audio">>
    /\ ads[2].ad_cfg.category = <<"id-225">>

----------------------------------------------------------------------------
(* Properties of the extracted shipping information *)

\* the page shows a shipping price
ShowsShippingPrice == page.shipping_text # <<>> /\ page.shipping_text[Len(page.shipping_text)] = "€"
\* the cents of the price the page shows
ShownCents == price_in_cent(page.shipping_text[Len(page.shipping_text) - 1])
\* the option names the gateway offers at the shown price that are mapped and
\* not excluded
UsableAtShownPrice ==
    {shipping_option_mapping[gateway[k].id] :
        k \in {j \in 1..Len(gateway) :
                 /\ gateway[j].priceInEuroCent = ShownCents
                 /\ gateway[j].id \in DOMAIN shipping_option_mapping
                 /\ shipping_option_mapping[gateway[j].id] \notin download.excluded_shipping_options}}

\* C20: in exact mode, once the shipping box of a page that shows a price was
\* read and the gateway offers an option at that price in cents whose id is
\* mapped and not excluded, the result is shipping_type SHIPPING with a list of
\* exactly one such option; 5,49 with DHL_002 at 549 cents gives [DHL_5].
C20_ExactModeFindsMappedOption ==
    (/\ extracted.done /\ ~download.include_all_matching_shipping_options
     /\ ShowsShippingPrice /\ UsableAtShownPrice # {}) =>
        /\ extracted.shipping_type = "SHIPPING"
        /\ extracted.shipping_options_given
        /\ Len(extracted.shipping_options) = 1
        /\ extracted.shipping_options[1] \in UsableAtShownPrice

\* the first option of the gateway at the shown price, as next(...) finds it
FirstAtShownPrice ==
    gateway[CHOOSE k \in MatchingPositions(gateway, ShownCents) :
                \A j \in MatchingPositions(gateway, ShownCents) : k <= j]

\* C21: every option name the extractor puts into shipping_options is a key
\* of the table of __set_shipping_options, so that publishing the extracted
\* options raises nothing.
C21_ExtractedOptionsAccepted ==
    (extracted.done /\ extracted.shipping_options_given /\ extracted.shipping_options # <<>>) =>
        /\ \A i \in 1..Len(extracted.shipping_options) :
              extracted.shipping_options[i] \in DOMAIN shipping_options_mapping
        /\ set_shipping_options(extracted.shipping_options).error = ""

\* the page shows a price and the first option of the gateway at that price
\* has an id without an entry in the mapping
MatchedUnmapped ==
    /\ ShowsShippingPrice
    /\ MatchingPositions(gateway, ShownCents) # {}
    /\ FirstAtShownPrice.id \notin DOMAIN shipping_option_mapping

\* C22: reading the shipping box of a page whose price matches an option
\* with an unmapped id ends in an error and gives no result.
C22_UnmappedOptionIsAnError ==
    [][(~extracted.done /\ page.open /\ MatchedUnmapped) =>
            (error' # "" /\ ~extracted'.done)]_vars

----------------------------------------------------------------------------
(* Properties of the delete requests of a run *)

\* the step calls delete_ad (or, after a publish, fails before it)
DeleteAdCalled ==
    \/ pc = "delete_loop" /\ idx <= Len(ads)
    \/ pc = "delete_before"
    \/ pc = "published" /\ DeletesAfterPublish

\* C23: delete requests are sent by delete_ad only and each carries the token
\* the management page held in that call; when the page has no meta element
\* (TimeoutError) or the element has no content (the AssertionError of a
\* call by id, whose requests never raise) the call sends no request and the
\* run is aborted.
C23_DeleteRequestsCarryToken ==
    [][/\ Len(requests') > Len(requests) =>
             /\ DeleteAdCalled
             /\ \A i \in 1..Len(NewRequests) : NewRequests[i].csrf = "token"
       /\ (DeleteAdCalled /\ error' = "TimeoutError") =>
             (requests' = requests /\ remote' = remote /\ pc' = "aborted")
       /\ (DeleteAdCalled /\ ~DeleteAdByTitle /\ error' = "AssertionError") =>
             (requests' = requests /\ remote' = remote /\ pc' = "aborted")]_vars

\* a delete run by id was aborted at its second ad for the missing token,
\* after the first ad's request was sent with the token
C23_Witness ==
    /\ command = "delete" /\ pc = "aborted" /\ idx = 2
    /\ ~config.delete_old_ads_by_title
    /\ error = "AssertionError"
    /\ Len(requests) = 1 /\ requests[1].csrf = "token"

\* C28: a step of publish_ad that fails before the confirmation URL was seen
\* (the limit banner, delete_ad, the form, the wait for the confirmation)
\* leaves every stored document and the ad's original record as they were,
\* and until the confirmation the stored document is the original record as
\* loaded, without a timestamp of this run.
C28_FailedPublishWritesNothing ==
    [][(command = "publish" /\ pc \in {"publish_ad", "delete_before", "fill_form", "submitted"}) =>
          /\ storage[CurrentAd.ad_file] = CurrentAd.ad_cfg_orig
          /\ CurrentAd.ad_cfg_orig.updated_on # NowText
          /\ pc' = "aborted" =>
                /\ storage' = storage
                /\ ads'[idx].ad_cfg_orig = ads[idx].ad_cfg_orig
                /\ nextId' = nextId]_vars

\* the second ad of a publish run failed with a timeout before its
\* confirmation, after the first one was published and saved
C28_Witness ==
    /\ command = "publish" /\ pc = "aborted" /\ error = "TimeoutError" /\ idx = 2
    /\ storage[ads[1].ad_file].id = FirstNewId
    /\ nextId = FirstNewId + 1
    /\ storage[ads[2].ad_file] = ads[2].ad_cfg_orig
    /\ storage[ads[2].ad_file].updated_on # NowText

\* the listing ids the site assigned to the publishes of this run: the ids
\* of the original records stamped with the time of this run
AssignedInRun ==
    {ads[i].ad_cfg_orig.id : i \in {j \in 1..Len(ads) : ads[j].ad_cfg_orig.updated_on = NowText}}

\* C29: in a publish run no delete request names a listing id that a publish
\* of the same run was assigned, and those listings stay on the site.
C29_NoDeleteOfNewListing ==
    command = "publish" =>
        /\ \A k \in 1..Len(requests) : requests[k].id \notin AssignedInRun
        /\ \A id \in AssignedInRun : \E l \in remote : l.id = id

\* delete-by-title before publishing: the first ad was published and the old
\* listing of the second one was deleted after that
C29_Witness ==
    /\ command = "publish" /\ pc = "fill_form" /\ idx = 2
    /\ config.delete_old_ads = "BEFORE_PUBLISH" /\ config.delete_old_ads_by_title
    /\ AssignedInRun = {FirstNewId}
    /\ requests # <<>>
    /\ requests[Len(requests)].id = storage[ads[2].ad_file].id

\* C30: in a publish or delete run no two delete requests name the same
\* listing id.
C30_OneDeleteRequestPerListing ==
    command \in {"publish", "delete"} =>
        \A i, j \in 1..Len(requests) : i # j => requests[i].id # requests[j].id

----------------------------------------------------------------------------
(* Properties of the shipping dialog *)

\* C25: when the form of an ad that names shipping options was submitted and
\* no wait of __set_shipping_options timed out, the dialog is closed with the
\* requested size active and exactly the requested packages selected, whether
\* the size was checked when the dialog opened or not.
C25_DialogSelectsRequested ==
    (/\ command = "publish" /\ pc = "submitted" /\ UsesShippingOptions(CurrentAd.ad_cfg)
     /\ ~form.timeout) =>
        /\ ~form.open
        /\ form.size = set_shipping_options(CurrentAd.ad_cfg.shipping_options).shipping_size
        /\ form.selected = set_shipping_options(CurrentAd.ad_cfg.shipping_options).shipping_packages

\* the size Mittel was checked when the dialog opened, DHL_5 alone was
\* requested and the M-Paket was deselected
C25_Witness ==
    /\ command = "publish" /\ pc = "submitted"
    /\ CurrentAd.ad_cfg.shipping_options = <<"DHL_5">>
    /\ form.was_checked /\ ~form.timeout
    /\ form.selected = {"Paket 5 kg"}

----------------------------------------------------------------------------
(* The ad page specification: _extract_ad_page_info on pages of published ads *)

AdPagePrefixes == {<<>>, <<"p">>, <<" ">>, <<"p", " ">>}
AdPageSuffixes == {<<>>, <<"s">>, <<" ">>, <<" ", "s">>}
AuthoredDescriptions == {<<"d">>, <<"d", " ", "e">>, <<" ", "d">>, <<"d", "@">>}
AdPageTitles == {"Title of ad A", "Title of ad B"}

\* the pages of ads that were published with the configured affixes
AdPages(cfg) ==
    {[open |-> TRUE, title |-> t,
      description |-> EffectiveDescription([description |-> d], cfg),
      shipping_text |-> st, id |-> i, creation_day |-> c]
        : t \in AdPageTitles, d \in AuthoredDescriptions,
          st \in {<<"Nur", "Abholung">>, <<"+", "Versand", "ab", "5,49", "€">>},
          i \in {1, 2}, c \in {0, 1}}

InitAdPage ==
    /\ storage \in [AdFiles -> {BaseDoc}]
    /\ \E c \in {c \in Configs : c.delete_old_ads = "NEVER" /\ ~c.delete_old_ads_by_title},
          prefix \in AdPagePrefixes, suffix \in AdPageSuffixes :
          config = [c EXCEPT !.descr_prefix = prefix, !.descr_suffix = suffix]
    /\ remote = {}
    /\ command = "download"
    /\ ads_selector = Str_all
    /\ keep_old_ads = FALSE
    /\ ads = <<>>
    /\ pc = "download_ads"
    /\ idx = 0
    /\ count = 0
    /\ published_ads = <<>>
    /\ requests = <<>>
    /\ now = 0
    /\ nextId = FirstNewId
    /\ warned = FALSE
    /\ runs = 1
    /\ error = ""
    /\ summary = None
    /\ deleted = {}
    /\ form = NoForm
    /\ page \in AdPages(config)
    /\ gateway = <<GatewayOption("DHL_001", 489, "SMALL"), GatewayOption("DHL_002", 549, "MEDIUM"),
                   GatewayOption("HERMES_003", 599, "MEDIUM")>>
    /\ download = [include_all_matching_shipping_options |-> FALSE,
                   excluded_shipping_options |-> {}]
    /\ extracted = NotExtracted
    /\ info = NoInfo
    /\ NoOwnAds

SpecAdPage == InitAdPage /\ [][ExtractAdPageInfo]_vars

----------------------------------------------------------------------------
(* The own ads specification: extract_own_ads_urls on every management list *)

\* a page of the list has up to MaxItems items; the link of its last item
\* may be missing
PageShapes ==
    {[items |-> c, broken |-> b] : c \in 0..MaxItems, b \in BOOLEAN} \ {[items |-> 0, broken |-> TRUE]}

\* the items of page k: the reference of an item names its page and position
PageItems(k, shape) ==
    [j \in 1..shape.items |-> IF shape.broken /\ j = shape.items THEN NoLink ELSE <<k, j>>]

InitOwnAds ==
    /\ storage \in [AdFiles -> {BaseDoc}]
    /\ config \in {c \in Configs : c.delete_old_ads = "NEVER" /\ ~c.delete_old_ads_by_title}
    /\ remote = {}
    /\ command = "download"
    /\ ads_selector = Str_all
    /\ keep_old_ads = FALSE
    /\ ads = <<>>
    /\ pc = "own_ads_urls"
    /\ idx = 0
    /\ count = 0
    /\ published_ads = <<>>
    /\ requests = <<>>
    /\ now = 0
    /\ nextId = FirstNewId
    /\ warned = FALSE
    /\ runs = 1
    /\ error = ""
    /\ summary = None
    /\ deleted = {}
    /\ form = NoForm
    /\ page = NoPage
    /\ gateway = <<>>
    /\ download = [include_all_matching_shipping_options |-> FALSE,
                   excluded_shipping_options |-> {}]
    /\ extracted = NotExtracted
    /\ info = NoInfo
    /\ \E n \in 1..MaxPages : \E shapes \in [1..n -> PageShapes] :
          overview = [k \in 1..n |-> PageItems(k, shapes[k])]
    /\ multi_page = FALSE
    /\ current_page = 0
    /\ refs = <<>>
    /\ log = <<>>

NextOwnAds ==
    \/ OwnAdsOpen
    \/ OwnAdsPage

\* the coroutine is awaited to its end: a step that can be taken is taken
SpecOwnAds == InitOwnAds /\ [][NextOwnAds]_vars /\ WF_vars(NextOwnAds)

----------------------------------------------------------------------------
(* Properties of the extracted record *)

C27_AffixesRemoved ==
    info.done =>
        \A d \in AuthoredDescriptions :
            page.description = config.descr_prefix \o d \o config.descr_suffix =>
                info.description = Strip(d)

----------------------------------------------------------------------------
(* Properties of the references of the own ads *)

\* the messages logged before the warning for an empty result
Messages == IF log # <<>> /\ log[Len(log)] = "no_urls" THEN SubSeq(log, 1, Len(log) - 1) ELSE log
LastMessage == Messages[Len(Messages)]
\* the number of pages whose items were listed
ReadPages ==
    IF LastMessage = "no_list" THEN 0
    ELSE IF LastMessage = "no_items" THEN current_page - 1
    ELSE current_page
\* every item of the page has its link
AllLinked(list_items) == \A j \in 1..Len(list_items) : list_items[j] # NoLink
\* the references of the items of pages 1..k, page after page; a page with
\* an item without link gives none
RECURSIVE ListedRefs(_)
ListedRefs(k) ==
    IF k = 0 THEN <<>>
    ELSE ListedRefs(k - 1) \o (IF AllLinked(overview[k]) THEN overview[k] ELSE <<>>)

\* the references of the items of pages 1..k that have their link
RECURSIVE LinkedRefs(_)
LinkedRefs(k) ==
    IF k = 0 THEN <<>>
    ELSE LinkedRefs(k - 1) \o SelectSeq(overview[k], LAMBDA item : item # NoLink)

\* C26 as stated: what extract_own_ads_urls returns holds the reference of
\* each item of each page it has read, in the order of the pages.
C26_OneRefPerListedItem ==
    pc = "own_ads_returned" => refs = LinkedRefs(ReadPages)

\* what extract_own_ads_urls has returned
OwnAdsReturnedRight ==
    pc = "own_ads_returned" =>
        /\ refs = ListedRefs(ReadPages)
        /\ LastMessage = "last_page" => (multi_page /\ ~NextEnabled(current_page))
        /\ LastMessage = "one_iteration" => (~multi_page /\ current_page = 1)
        /\ (Messages[1] \in {"multiple_pages", "single_page"}
            /\ LastMessage \in {"last_page", "one_iteration"}) => ReadPages = Len(overview)

\* C26 amended: extract_own_ads_urls returns for every list of up to MaxPages pages;
\* it has stopped at a page without an enabled next-page button (or at the
\* first page when no pagination with an enabled button was found, or at a
\* wait that failed), and it returns the references of the items of the
\* pages it has read, one for each item, page after page in the order of the
\* items, for the pages whose items all have their link.
C26_OwnAdsUrlsTerminates ==
    /\ <>(pc = "own_ads_returned")
    /\ []OwnAdsReturnedRight

\* a list of three pages was read to its last page
C26_Witness ==
    /\ pc = "own_ads_returned"
    /\ Len(overview) = 3 /\ current_page = 3
    /\ log = <<"multiple_pages", "last_page">>
    /\ refs = <<<<1, 1>>, <<1, 2>>, <<2, 1>>, <<3, 1>>, <<3, 2>>>>

====
